---------------------------- MODULE Spec2Model ----------------------------
(***************************************************************************)
(* A model of the particle lifecycle / animation engine of js/main.js:     *)
(* the lifecycle alpha calculator, the trail (GlowParticle), burst         *)
(* (WeldingSpark) and comet (Comet) particles and their managers.          *)
(*                                                                         *)
(* Numbers.  JavaScript numbers are modelled as exact fixed-point values:  *)
(*   - path parameters and lifecycle times (currentT, speed,               *)
(*     lifecycleOffset, fadeInTime, ...) in units of 1/TDen;               *)
(*   - params.*.speedFactor in units of 1/SfDen;                           *)
(*   - baseSpeedRandomness in units of 1/MultDen;                          *)
(*   - a value of Math.random() the code stores, compares or floors (the   *)
(*     draws t, emit, count, color) in units of 1/TDen (0 .. TDen-1); one  *)
(*     the code scales is drawn from a grid on which the scaled value is   *)
(*     exact: the draws mult, offset, scatter and size in units of         *)
(*     1/RandDen (quarters), the draw of a life decrement in units of      *)
(*     1/DecDen (twentieths);                                              *)
(*   - the t of a tail sample of a comet in units of 1/TailDen;            *)
(*   - scatter offsets in units of 1/ScatterDen, the scatter radius in     *)
(*     units of 1/RadiusDen;                                               *)
(*   - a position path.getPointAt(t) + off as the record [t, off]: the     *)
(*     curve is left uninterpreted, the added offset is exact;             *)
(*   - alpha values as reduced fractions <<n, d>> with d > 0;              *)
(*   - a comparison the code makes between two numbers that are equal in  *)
(*     exact arithmetic is made on the IEEE-754 values it holds: each      *)
(*     particle carries currentTBits and lifecycleOffsetBits, the doubles  *)
(*     of these fields, and a burst particle sparkLifeBits, the elements   *)
(*     of its Float32Array of lives; the lifecycle position and the t of a *)
(*     tail sample are reduced modulo 1 on the doubles.  The exact value   *)
(*     names the double next to it: currentT = TDen or a position TDen (a  *)
(*     t of TailDen) stands for a double just below 1 whose exact value is *)
(*     1, a spark life 0 for a float that may be just above 0.             *)
(***************************************************************************)
EXTENDS Integers, Sequences, FiniteSets, TLC

VARIABLES params, curvePath, particleSystem, scene, probe, history

vars == <<params, curvePath, particleSystem, scene, probe, history>>

-----------------------------------------------------------------------------
(* Units *)

SfDen == 10000

MultDen == 8

TDen == SfDen * MultDen

RandDen == 4

DecDen == 20

RadiusDen == 10

ScatterDen == 2 * RadiusDen

-----------------------------------------------------------------------------
(* Bounds of the model *)

MaxTrailLength == 3

-----------------------------------------------------------------------------
(* Exact fractions *)

Abs(x) == IF x < 0 THEN -x ELSE x

RECURSIVE Gcd(_, _)
Gcd(a, b) == IF b = 0 THEN a ELSE Gcd(b, a % b)

Rat(n, d) == LET g == Gcd(Abs(n), d) IN <<n \div g, d \div g>>

Zero == <<0, 1>>

One == <<1, 1>>

RMul(a, b) == Rat(a[1] * b[1], a[2] * b[2])

RSub(a, b) == Rat(a[1] * b[2] - b[1] * a[2], a[2] * b[2])

RLeq(a, b) == a[1] * b[2] <= b[1] * a[2]

RMax(a, b) == IF RLeq(a, b) THEN b ELSE a

RMin(a, b) == IF RLeq(a, b) THEN a ELSE b

Max(a, b) == IF a >= b THEN a ELSE b

-----------------------------------------------------------------------------
(* Double precision.  The numbers of the code are IEEE-754 doubles, and a  *)
(* comparison whose two sides are equal in exact arithmetic is decided by  *)
(* their roundings: a currentT that is 1 in exact arithmetic can be one    *)
(* unit in the last place below 1 as a double, and then the particle wraps *)
(* a tick later; a lifecycle position, a spark life or the t of a tail     *)
(* sample that is 0 in exact arithmetic can be a double just above 0 or    *)
(* just below 0.  Next to the exact value of such a field the model        *)
(* carries the double (or the Float32Array element) the code holds, in a   *)
(* field named ...Bits, computed with the roundings of the code: the parse *)
(* of a decimal and every product, sum and difference round to 53          *)
(* significant bits, a store into a Float32Array to 24, ties to even.  A   *)
(* double x with 0 <= x < 4 is the triple <<hi, mid, lo>> of               *)
(* x * 2^72 = hi * 2^48 + mid * 2^24 + lo; the values that occur (0 and    *)
(* the doubles from 2^-19 up, their sums and differences) are integers at  *)
(* that scale.  A negative double is the triple of its magnitude with the  *)
(* three limbs negated.                                                    *)

LimbBase == 4096 * 4096

DoubleZero == <<0, 0, 0>>

DoubleOne == <<LimbBase, 0, 0>>

RECURSIVE TwoTo(_)
TwoTo(n) == IF n = 0 THEN 1 ELSE 2 * TwoTo(n - 1)

PowersOfTwo == [k \in 0..30 |-> TwoTo(k)]

(* the weight, in lo, of the last of the 53 significant bits of a value    *)
(* whose hi is at least 16: hi has k bits, the value 48 + k                *)
UlpAt(hi) ==
    LET pw == PowersOfTwo
        k  == CHOOSE k \in 5..30 : hi < pw[k] /\ pw[k - 1] <= hi
    IN  pw[k - 5]

Carry(x) ==
    CHOOSE r \in
        {LET mid == v[2] + v[3] \div LimbBase
         IN  <<v[1] + mid \div LimbBase, mid % LimbBase, v[3] % LimbBase>> :
            v \in {x}} : TRUE

(* v cut to a multiple of ulp, the nearest, ties to even *)
RoundAt(v, ulp, inexact) ==
    LET rest == v[3] % ulp
        down == v[3] - rest
        up   == \/ 2 * rest > ulp
                \/ 2 * rest = ulp /\ (inexact \/ (down \div ulp) % 2 = 1)
    IN  Carry(<<v[1], v[2], IF up THEN down + ulp ELSE down>>)

(* x rounded to 53 significant bits, ties to even; inexact tells that x    *)
(* stands for a value slightly above x (the cut-off rest of a division)    *)
RoundToDouble(x, inexact) ==
    CHOOSE r \in
        {IF v[1] < 16 THEN v ELSE RoundAt(v, UlpAt(v[1]), inexact) :
            v \in {x}} : TRUE

(* the number of bits of n, for 0 <= n < 2^30 *)
BitLength(n) ==
    LET pw == PowersOfTwo
    IN  CHOOSE k \in 0..30 : n < pw[k] /\ (k = 0 \/ pw[k - 1] <= n)

(* the number of bits of x * 2^72 *)
Length(x) ==
    IF x[1] > 0 THEN 48 + BitLength(x[1])
    ELSE IF x[2] > 0 THEN 24 + BitLength(x[2])
    ELSE BitLength(x[3])

(* the limb that holds bit i of x * 2^72, and the place of the bit in it *)
LimbOf(i) == IF i >= 48 THEN 1 ELSE 3 - i \div 24

ShiftOf(i) == IF i >= 48 THEN i - 48 ELSE i % 24

BitAt(v, i) == (v[LimbOf(i)] \div PowersOfTwo[ShiftOf(i)]) % 2

(* the bits of v below bit i are all 0 *)
ZeroBelow(v, i) ==
    /\ v[LimbOf(i)] % PowersOfTwo[ShiftOf(i)] = 0
    /\ \A m \in (LimbOf(i) + 1)..3 : v[m] = 0

(* v cut to a multiple of 2^e, the nearest, ties to even *)
RoundAtBit(v, e, inexact) ==
    LET up == /\ BitAt(v, e - 1) = 1
              /\ (inexact \/ ~ZeroBelow(v, e - 1) \/ BitAt(v, e) = 1)
        w  == PowersOfTwo[ShiftOf(e)]
    IN  Carry([m \in 1..3 |->
                 IF m < LimbOf(e) THEN v[m]
                 ELSE IF m = LimbOf(e)
                        THEN (v[m] - (v[m] % w)) + (IF up THEN w ELSE 0)
                 ELSE 0])

(* Math.fround(x): x rounded to 24 significant bits, ties to even, as the  *)
(* store into a Float32Array does                                          *)
FloatRound(x) ==
    CHOOSE r \in
        {IF Length(v) <= 24 THEN v ELSE RoundAtBit(v, Length(v) - 24, FALSE) :
            v \in {x}} : TRUE

(* the k leading base-4096 digits of r / d, for 0 <= r < d <= TDen *)
RECURSIVE FractionDigits(_, _, _)
FractionDigits(r, d, k) ==
    IF k = 0 THEN <<r>>
    ELSE <<(r * 4096) \div d>> \o FractionDigits((r * 4096) % d, d, k - 1)

(* the double nearest to n / d, for 0 <= n < 2 * d: the value of the       *)
(* literal, of the slider or of the draw                                   *)
DoubleOfRatio(n, d) ==
    CHOOSE r \in
        {RoundToDouble(<<(n \div d) * LimbBase + g[1] * 4096 + g[2],
                         g[3] * 4096 + g[4],
                         g[5] * 4096 + g[6]>>, g[7] # 0) :
            g \in {FractionDigits(n % d, d, 6)}} : TRUE

(* x + y *)
DoubleAdd(x, y) ==
    RoundToDouble(Carry(<<x[1] + y[1], x[2] + y[2], x[3] + y[3]>>), FALSE)

(* x < y, for doubles of either sign *)
DoubleLess(x, y) ==
    \/ x[1] < y[1]
    \/ x[1] = y[1] /\ (x[2] < y[2] \/ (x[2] = y[2] /\ x[3] < y[3]))

(* x - y, for x >= y >= 0 *)
DoubleSub(x, y) ==
    RoundToDouble(Carry(<<x[1] - y[1], x[2] - y[2], x[3] - y[3]>>), FALSE)

(* -x *)
DoubleNeg(x) == <<-x[1], -x[2], -x[3]>>

(* x > 0, for a double of either sign *)
DoublePositive(x) == DoubleLess(DoubleZero, x)

(* x % 1, for x >= 0 *)
DoubleFrac(x) == <<x[1] % LimbBase, x[2], x[3]>>

(* x * m, for an integer m <= 64 *)
DoubleTimesInt(x, m) ==
    RoundToDouble(Carry(<<x[1] * m, x[2] * m, x[3] * m>>), FALSE)

(* the six base-4096 digits of a double x < 1 *)
Digits(x) ==
    <<x[1] \div 4096, x[1] % 4096, x[2] \div 4096, x[2] % 4096,
      x[3] \div 4096, x[3] % 4096>>

(* the sum of the products a[i] * b[c - i] of weight 4096^-c, from i on *)
RECURSIVE Column(_, _, _, _)
Column(a, b, c, i) ==
    IF i > 6 \/ i >= c THEN 0
    ELSE (IF c - i <= 6 THEN a[i] * b[c - i] ELSE 0) + Column(a, b, c, i + 1)

(* the digits 1 .. c of the product of the digit strings a and b, given    *)
(* the carry into digit c                                                  *)
RECURSIVE ProductDigits(_, _, _, _)
ProductDigits(a, b, c, carry) ==
    IF c = 0 THEN <<>>
    ELSE ProductDigits(a, b, c - 1, (Column(a, b, c, 1) + carry) \div 4096)
            \o <<(Column(a, b, c, 1) + carry) % 4096>>

(* x * y, for doubles x < 1 and y < 1 whose product is 0 or at least 2^-19 *)
DoubleTimes(x, y) ==
    CHOOSE r \in
        {RoundToDouble(<<g[1] * 4096 + g[2], g[3] * 4096 + g[4],
                         g[5] * 4096 + g[6]>>,
                       \E j \in 7..12 : g[j] # 0) :
            g \in {ProductDigits(a, b, 12, 0) :
                      a \in {Digits(x)}, b \in {Digits(y)}}} : TRUE

(* x * (m / MultDen) for a double x >= 0.0001 and a multiplier m / MultDen *)
(* with m <= 16: the product by m and the division by 8 are exact          *)
DoubleTimesMult(x, m) ==
    CHOOSE r \in
        {LET part == LimbBase \div MultDen
         IN  RoundToDouble(<<y[1] \div MultDen,
                             (y[1] % MultDen) * part + y[2] \div MultDen,
                             (y[2] % MultDen) * part + y[3] \div MultDen>>,
                           FALSE) :
            y \in {Carry(<<x[1] * m, x[2] * m, x[3] * m>>)}} : TRUE

(* speedFactor * baseSpeedRandomness, for the positions of a Speed Factor  *)
(* slider (0.0001 to 0.01) and the multipliers 0.5 to 2                    *)
SpeedDoubles ==
    [speedFactor \in 0..(SfDen \div 100) |->
        [baseSpeedRandomness \in (MultDen \div 2)..(2 * MultDen) |->
            DoubleTimesMult(DoubleOfRatio(speedFactor, SfDen),
                            baseSpeedRandomness)]]

DoubleSpeed(speedFactor, baseSpeedRandomness) ==
    SpeedDoubles[speedFactor][baseSpeedRandomness]

(* a time of the grid of currentT as a double: the value of a slider of    *)
(* the Lifecycle folder, or a value handed to a function                   *)
TimeBits(t) == DoubleOfRatio(t, TDen)

(* Math.random() * params.lifecycle.randomOffset, for a draw in quarters *)
OffsetBits(r, randomOffset) ==
    DoubleTimesMult(TimeBits(randomOffset), r * (MultDen \div RandDen))

(* x >= 1 *)
DoubleAtLeastOne(x) == x[1] >= LimbBase

(* this.currentT + this.speed of the particle p under the given speed      *)
(* factor, as the double update() compares with 1                          *)
advancedBits(p, speedFactor) ==
    DoubleAdd(p.currentTBits, DoubleSpeed(speedFactor, p.baseSpeedRandomness))

(* the next update() of p under the given speed factor wraps it *)
reachesOne(p, speedFactor) == DoubleAtLeastOne(advancedBits(p, speedFactor))

-----------------------------------------------------------------------------
(* ParticleSystem.calculateLifecycleAlpha *)

(* particle.lifecycleOffset + particle.currentT, as the double the code    *)
(* reduces modulo 1                                                        *)
lifecycleSumBits(particle) ==
    DoubleAdd(particle.lifecycleOffsetBits, particle.currentTBits)

(* (particle.lifecycleOffset + particle.currentT) % 1, as a double *)
lifecyclePosBits(particle) == DoubleFrac(lifecycleSumBits(particle))

(* (particle.lifecycleOffset + particle.currentT) % 1: the exact sum less  *)
(* the whole part of the double sum.  A sum that is a whole number in      *)
(* exact arithmetic and a double just below it gives TDen, a position just *)
(* below 1                                                                 *)
lifecyclePos(particle) ==
    (particle.lifecycleOffset + particle.currentT)
       - TDen * (lifecycleSumBits(particle)[1] \div LimbBase)

(* lifecyclePos < fadeInTime, on the doubles *)
InFadeIn(particle) ==
    DoubleLess(lifecyclePosBits(particle), TimeBits(params.lifecycle.fadeInTime))

(* lifecyclePos >= fadeInTime + stableTime, on the doubles *)
InFadeOut(particle) ==
    ~DoubleLess(lifecyclePosBits(particle),
                DoubleAdd(TimeBits(params.lifecycle.fadeInTime),
                          TimeBits(params.lifecycle.stableTime)))

rawLifecycleAlpha(particle) ==
    LET fadeInTime  == params.lifecycle.fadeInTime
        stableTime  == params.lifecycle.stableTime
        fadeOutTime == params.lifecycle.fadeOutTime
        pos         == lifecyclePos(particle)
    IN  IF InFadeIn(particle)
          THEN Rat(pos, fadeInTime)
          ELSE IF InFadeOut(particle)
                 THEN RSub(One, Rat(pos - fadeInTime - stableTime, fadeOutTime))
                 ELSE One

calculateLifecycleAlpha_noClamp(particle) ==
    IF ~params.lifecycle.enabled THEN One ELSE rawLifecycleAlpha(particle)

calculateLifecycleAlpha_noFadeOut(particle) ==
    IF ~params.lifecycle.enabled THEN One
    ELSE IF InFadeIn(particle)
           THEN Rat(lifecyclePos(particle), params.lifecycle.fadeInTime)
           ELSE One

calculateLifecycleAlpha(particle) ==
    IF ~params.lifecycle.enabled THEN One
    ELSE RMax(Zero, RMin(One, rawLifecycleAlpha(particle)))

-----------------------------------------------------------------------------
(* The configuration object.  GUI ranges: fadeInTime 0.01..0.5,            *)
(* stableTime 0.1..0.9, fadeOutTime 0.01..0.5, randomOffset 0..1.          *)

Centi(n) == n * (TDen \div 100)

FadeInTimes == {Centi(1), Centi(9), Centi(50)}

StableTimes == {Centi(10), Centi(90)}

FadeOutTimes == {Centi(1), Centi(20), Centi(50)}

Lifecycles ==
    [enabled : BOOLEAN, fadeInTime : FadeInTimes, stableTime : StableTimes,
     fadeOutTime : FadeOutTimes, randomOffset : {TDen}]

DefaultParams ==
    [particleType |-> "glow",
     curveType |-> "lorenz",
     numParticles |-> 406,
     particleScatterRadius |-> 11,
     lifecycle |-> [enabled |-> TRUE, fadeInTime |-> Centi(9),
                    stableTime |-> Centi(90), fadeOutTime |-> Centi(20),
                    randomOffset |-> TDen],
     glow |-> [trailLength |-> 22, speedFactor |-> 7,
               boldness |-> 10, lineWidth |-> 20],
     weldingSpark |-> [trailLength |-> 16, speedFactor |-> 60, sparkSize |-> 5],
     comet |-> [tailLength |-> 20, tailWidth |-> 8, speedFactor |-> 50,
                colorMode |-> "single", cometColor |-> "#80ffff"],
     currentTheme |-> "dark",
     colorMode |-> "palette",
     singleColorValue |-> "#ffffff",
     palette |-> <<"#667fff", "#734ef9", "#ffc21a", "#b39eff", "#007bff">>,
     paletteEnabled |-> <<TRUE, TRUE, TRUE, TRUE, TRUE>>]

(* the configuration the specifications start from: params with           *)
(* numParticles and the trail and tail lengths set to small values (the    *)
(* particles of a system do not read one another) and the three speed      *)
(* factors to 0.007, a position of their sliders that gives short cycles   *)
TunedParams ==
    [DefaultParams EXCEPT !.numParticles = 1,
                          !.glow.trailLength = MaxTrailLength,
                          !.glow.speedFactor = 70,
                          !.weldingSpark.trailLength = 1,
                          !.weldingSpark.speedFactor = 70,
                          !.comet.tailLength = 2,
                          !.comet.speedFactor = 70]

NoPath == [closed |-> FALSE, family |-> "none"]

NoSystem == [type |-> "none", particles |-> <<>>]

(* the scene where a specification does not follow the render objects *)
NoScene == [followed |-> FALSE, objects |-> {}, batches |-> 0]

(* a particle as calculateLifecycleAlpha() reads it: the two fields, each  *)
(* with the double nearest to its value                                    *)
ProbeParticle(lifecycleOffset, currentT) ==
    [lifecycleOffset |-> lifecycleOffset,
     lifecycleOffsetBits |-> TimeBits(lifecycleOffset),
     currentT |-> currentT,
     currentTBits |-> TimeBits(currentT)]

NoProbe == [particle |-> ProbeParticle(0, 0), called |-> FALSE, alpha |-> One]

(* history.ticks counts the animate() ticks of a burst system and          *)
(* history.bursts the emitSparks() calls made by those ticks; they are     *)
(* read only by the guards that bound them.  history.retuned tells that    *)
(* updateCometParams() has changed the comets in place since they were     *)
(* built; no action reads it.                                              *)
NoHistory == [ticks |-> 0, bursts |-> 0, retuned |-> FALSE]

-----------------------------------------------------------------------------
(* SpecAlpha: calculateLifecycleAlpha as a pure function of the lifecycle  *)
(* settings and of a particle's lifecycleOffset and currentT.              *)

ProbeOffsets == {0, Centi(25), Centi(50), Centi(91), TDen}

ProbeTs == {Centi(k) : k \in 0..99} \cup {TDen - 1}

(* this.currentT += this.speed, n times: the double currentT holds after   *)
(* n ticks without a wrap                                                  *)
RECURSIVE TickedBits(_, _, _)
TickedBits(bits, speedBits, n) ==
    IF n = 0 THEN bits
    ELSE DoubleAdd(TickedBits(bits, speedBits, n - 1), speedBits)

(* a particle as calculateLifecycleAlpha() reads it after the ticks of     *)
(* update(): built with the draws d.t, d.mult and d.offset under the       *)
(* params prm and then moved d.ticks times                                 *)
ProbeAfterTicks(prm, d) ==
    LET baseSpeedRandomness == (MultDen \div 2) + (d.mult * MultDen) \div RandDen
    IN  [lifecycleOffset |-> (d.offset * prm.lifecycle.randomOffset) \div RandDen,
         lifecycleOffsetBits |-> OffsetBits(d.offset, prm.lifecycle.randomOffset),
         currentT |->
            d.t + d.ticks * prm.glow.speedFactor * baseSpeedRandomness,
         currentTBits |->
            TickedBits(TimeBits(d.t),
                       DoubleSpeed(prm.glow.speedFactor, baseSpeedRandomness),
                       d.ticks)]

(* particles whose lifecycleOffset + currentT is 1 in exact arithmetic:    *)
(* the double sum is 0.9999999999999998 for the first (a position just     *)
(* below 1), 1 for the second (the position 0), 1.0000000000000004 for the *)
(* third (a position just above 0) and 0.9999999999999999 for the last     *)
TickedProbes ==
    {[t |-> Centi(43), mult |-> 3, offset |-> 2, ticks |-> 8],
     [t |-> Centi(43), mult |-> 2, offset |-> 2, ticks |-> 10],
     [t |-> Centi(68), mult |-> 3, offset |-> 1, ticks |-> 8],
     [t |-> TDen - 2 * TunedParams.glow.speedFactor * (MultDen \div 2),
      mult |-> 0, offset |-> 0, ticks |-> 2]}

InitAlpha ==
    /\ \E lc \in Lifecycles :
          LET prm == [TunedParams EXCEPT !.lifecycle = lc]
          IN  /\ params = prm
              /\ \/ \E off \in ProbeOffsets, t \in ProbeTs :
                       probe = [particle |-> ProbeParticle(off, t),
                                called |-> FALSE, alpha |-> One]
                 \/ \E d \in TickedProbes :
                       probe = [particle |-> ProbeAfterTicks(prm, d),
                                called |-> FALSE, alpha |-> One]
    /\ curvePath = NoPath
    /\ particleSystem = NoSystem
    /\ history = NoHistory
    /\ scene = NoScene

CallCalculateLifecycleAlpha ==
    /\ ~probe.called
    /\ probe' = [probe EXCEPT !.called = TRUE,
                              !.alpha = calculateLifecycleAlpha(probe.particle)]
    /\ UNCHANGED <<params, curvePath, particleSystem, scene, history>>

NextAlpha == CallCalculateLifecycleAlpha

SpecAlpha == InitAlpha /\ [][NextAlpha]_vars

-----------------------------------------------------------------------------
(* C6: calculateLifecycleAlpha returns a value in [0,1] for every          *)
(* lifecycleOffset in [0,1], currentT in [0,1) and every allowed fadeIn,   *)
(* stable and fadeOut setting, with the lifecycle enabled or disabled.     *)
C6_AlphaInUnitInterval ==
    probe.called => RLeq(Zero, probe.alpha) /\ RLeq(probe.alpha, One)

(* The clamp acts: the fade-out formula is below 0 and the result is 0.    *)
C6_Witness ==
    /\ probe.called
    /\ params.lifecycle.enabled
    /\ ~RLeq(Zero, rawLifecycleAlpha(probe.particle))
    /\ probe.alpha = Zero

(* The piecewise function of the lifecycle position p, written from the    *)
(* specification: p / fadeIn, then 1, then 1 - (p - fadeIn - stable) /     *)
(* fadeOut, clamped to [0,1].                                              *)
SpecPiecewiseAlpha(p, fadeIn, stable, fadeOut) ==
    LET v == CASE p < fadeIn -> <<p, fadeIn>>
               [] p >= fadeIn /\ p < fadeIn + stable -> <<1, 1>>
               [] OTHER -> <<fadeOut - (p - fadeIn - stable), fadeOut>>
    IN  IF v[1] <= 0 THEN <<0, 1>>
        ELSE IF v[1] >= v[2] THEN <<1, 1>>
        ELSE v

(* C7: with the lifecycle enabled, calculateLifecycleAlpha equals the      *)
(* clamped piecewise function of p = (lifecycleOffset + currentT) mod 1,   *)
(* the position the code computes from the two doubles (it differs from    *)
(* the sum of the two fields by a whole number and lies in [0,1], where    *)
(* TDen stands for a double just below 1); it is 0 at p = 0, 1 at          *)
(* p = fadeIn and 1 at p = fadeIn + stable.                                *)
C7_AlphaIsPiecewise ==
    (probe.called /\ params.lifecycle.enabled) =>
       LET p  == lifecyclePos(probe.particle)
           fi == params.lifecycle.fadeInTime
           st == params.lifecycle.stableTime
           fo == params.lifecycle.fadeOutTime
           s  == SpecPiecewiseAlpha(p, fi, st, fo)
       IN  /\ p >= 0 /\ p <= TDen
           /\ p % TDen = (probe.particle.lifecycleOffset
                             + probe.particle.currentT) % TDen
           /\ p = TDen => ~DoubleAtLeastOne(lifecycleSumBits(probe.particle))
           /\ probe.alpha[1] * s[2] = s[1] * probe.alpha[2]
           /\ (p = 0 => probe.alpha = <<0, 1>>)
           /\ (p = fi => probe.alpha = <<1, 1>>)
           /\ (p = fi + st => probe.alpha = <<1, 1>>)

(* A call in the fade-out stage whose result is strictly between 0 and 1.  *)
C7_Witness ==
    /\ probe.called
    /\ params.lifecycle.enabled
    /\ lifecyclePos(probe.particle) >
          params.lifecycle.fadeInTime + params.lifecycle.stableTime
    /\ probe.alpha # Zero
    /\ probe.alpha # One

-----------------------------------------------------------------------------
(* Math.random() draws.  A draw r of t, emit, count or color stands for    *)
(* the number r / TDen, a draw r of mult, offset, scatter or size for the  *)
(* number r / RandDen: every division below is exact on these grids.       *)

RandQuarters == 0..(RandDen - 1)

(* (Math.random() - 0.5) * 2 * radius, in units of 1/ScatterDen *)
ScatterComponent_twiceAsWide(r, radius) ==
    ((2 * r - RandDen) * 2 * radius * ScatterDen) \div (RandDen * RadiusDen)

ScatterComponent(r, radius) ==
    ((2 * r - RandDen) * radius * ScatterDen) \div (RandDen * RadiusDen)

(* new THREE.Vector3(...) / scatterOffset.set(...) from three draws *)
ScatterVector(rs, radius) ==
    <<ScatterComponent(rs[1], radius), ScatterComponent(rs[2], radius),
      ScatterComponent(rs[3], radius)>>

ScatterDraws == {<<0, 2, 3>>, <<3, 1, 0>>}

(* path.getPointAt(t).clone().add(offset) *)
PointAt(t, offset) == [t |-> t, off |-> offset]

(* ((t % 1) + 1) % 1 *)
Wrap01(t) == ((t % TDen) + TDen) % TDen

-----------------------------------------------------------------------------
(* GlowParticle *)

(* const segmentDeltaT = 0.001 *)
segmentDeltaT == TDen \div 1000

(* 1.0 - (i / Math.max(1, trailLength - 1)); a 0 / 0 is NaN *)
NaN == <<0, 0>>

TrailAlphaAt_noFloor(i, trailLength) ==
    IF trailLength - 1 = 0 THEN NaN
    ELSE RSub(One, Rat(i, trailLength - 1))

TrailAlphaAt(i, trailLength) ==
    RSub(One, Rat(i, Max(1, trailLength - 1)))

(* the loop over the alphas, then the writes of alphas[0] *)
TrailAlphas(trailLength) ==
    [k \in 1..trailLength |->
        IF k = 1 THEN One ELSE TrailAlphaAt(k - 1, trailLength)]

(* new GlowParticle(path, options); d holds the constructor's draws *)
GlowParticle(path, options, d) ==
    LET currentT == d.t
        baseSpeedRandomness ==
            (MultDen \div 2) + (d.mult * MultDen) \div RandDen
        scatterOffset == ScatterVector(d.scatter, options.scatterRadius)
    IN  [kind |-> "glow",
         path |-> path,
         trailLength |-> options.trailLength,
         currentT |-> currentT,
         currentTBits |-> DoubleOfRatio(currentT, TDen),
         baseSpeedRandomness |-> baseSpeedRandomness,
         speed |-> options.speedFactor * baseSpeedRandomness,
         lifecycleOffset |->
            (d.offset * params.lifecycle.randomOffset) \div RandDen,
         lifecycleOffsetBits |->
            OffsetBits(d.offset, params.lifecycle.randomOffset),
         justReset |-> FALSE,
         scatterOffset |-> scatterOffset,
         trailPositions |->
            [k \in 1..options.trailLength |->
                PointAt(Wrap01(currentT - (k - 1) * segmentDeltaT), scatterOffset)],
         trailAlphas |-> TrailAlphas(options.trailLength),
         uLifecycleAlpha |-> One]

(* the teleport of the whole trail to the start position (lines 423-427) *)
TeleportTrail_keepOld(positions, startPos) ==
    [k \in 1..Len(positions) |-> IF k = 1 THEN startPos ELSE positions[k]]

TeleportTrail(positions, startPos) ==
    [k \in 1..Len(positions) |-> startPos]

(* the shift of the trail and the write of the new head (lines 434-442) *)
ShiftTrail_headOnly(positions, newHeadPos) ==
    [k \in 1..Len(positions) |-> IF k = 1 THEN newHeadPos ELSE positions[k]]

ShiftTrail(positions, newHeadPos) ==
    [k \in 1..Len(positions) |-> IF k = 1 THEN newHeadPos ELSE positions[k - 1]]

(* an update that moves by the speed stored in the particle *)
GlowParticle_update_storedSpeed(p, scatter) ==
    LET speed    == p.speed
        advanced == p.currentT + speed
        sumBits  == advancedBits(p, speed \div p.baseSpeedRandomness)
        wraps    == DoubleAtLeastOne(sumBits)
        currentT == IF wraps THEN 0 ELSE advanced
        scatterOffset ==
            IF wraps THEN ScatterVector(scatter, params.particleScatterRadius)
                     ELSE p.scatterOffset
        justReset == IF wraps /\ ~p.path.closed THEN TRUE ELSE p.justReset
        positions == IF wraps
                       THEN TeleportTrail(p.trailPositions, PointAt(0, scatterOffset))
                       ELSE p.trailPositions
    IN  [p EXCEPT !.speed = speed,
                  !.currentT = currentT,
                  !.currentTBits = IF wraps THEN DoubleZero ELSE sumBits,
                  !.scatterOffset = scatterOffset,
                  !.justReset = justReset,
                  !.trailPositions =
                      ShiftTrail(positions, PointAt(currentT, scatterOffset)),
                  !.trailAlphas = TrailAlphas(p.trailLength)]

(* GlowParticle.update(); scatter holds the three draws of a wrap *)
GlowParticle_update(p, scatter) ==
    LET speed    == params.glow.speedFactor * p.baseSpeedRandomness
        advanced == p.currentT + speed
        sumBits  == advancedBits(p, params.glow.speedFactor)
        wraps    == DoubleAtLeastOne(sumBits)
        currentT == IF wraps THEN 0 ELSE advanced
        scatterOffset ==
            IF wraps THEN ScatterVector(scatter, params.particleScatterRadius)
                     ELSE p.scatterOffset
        justReset == IF wraps /\ ~p.path.closed THEN TRUE ELSE p.justReset
        positions == IF wraps
                       THEN TeleportTrail(p.trailPositions, PointAt(0, scatterOffset))
                       ELSE p.trailPositions
    IN  [p EXCEPT !.speed = speed,
                  !.currentT = currentT,
                  !.currentTBits = IF wraps THEN DoubleZero ELSE sumBits,
                  !.scatterOffset = scatterOffset,
                  !.justReset = justReset,
                  !.trailPositions =
                      ShiftTrail(positions, PointAt(currentT, scatterOffset)),
                  !.trailAlphas = TrailAlphas(p.trailLength)]

(* p.currentT > fadeOutStartT, with fadeOutStartT = 1.0 - fadeOutTime, on  *)
(* the doubles                                                             *)
PastFadeOutStart(p) ==
    DoubleLess(DoubleSub(DoubleOne, TimeBits(params.lifecycle.fadeOutTime)),
               p.currentTBits)

(* p.currentT < fadeInTime, on the doubles.  fadeInProgress, the quotient  *)
(* p.currentT / fadeInTime, is a double below 1.0 exactly when this holds  *)
BeforeFadeInEnd(p) ==
    DoubleLess(p.currentTBits, TimeBits(params.lifecycle.fadeInTime))

(* a body whose fade-in after a reset leaves the multiplier as it is *)
GlowParticleSystem_updateOne_noSeamFadeIn(p0, scatter) ==
    LET p == GlowParticle_update(p0, scatter)
        fadeOutTime   == params.lifecycle.fadeOutTime
        fadeInTime    == params.lifecycle.fadeInTime
        fadeOutStartT == TDen - fadeOutTime
        alpha         == calculateLifecycleAlpha(p)
    IN  IF ~params.lifecycle.enabled THEN p
        ELSE IF p.path.closed THEN [p EXCEPT !.uLifecycleAlpha = alpha]
        ELSE IF PastFadeOutStart(p)
               THEN [p EXCEPT !.uLifecycleAlpha =
                        RMul(alpha, RSub(One, Rat(p.currentT - fadeOutStartT,
                                                  fadeOutTime)))]
        ELSE IF p.justReset /\ BeforeFadeInEnd(p)
               THEN [p EXCEPT !.uLifecycleAlpha = alpha,
                              !.justReset =
                                 IF ~BeforeFadeInEnd(p) THEN FALSE ELSE TRUE]
        ELSE IF p.justReset
               THEN [p EXCEPT !.uLifecycleAlpha = alpha, !.justReset = FALSE]
        ELSE [p EXCEPT !.uLifecycleAlpha = alpha]

(* the body of the forEach of GlowParticleSystem.update(), lines 236-270 *)
GlowParticleSystem_updateOne(p0, scatter) ==
    LET p == GlowParticle_update(p0, scatter)
        fadeOutTime   == params.lifecycle.fadeOutTime
        fadeInTime    == params.lifecycle.fadeInTime
        fadeOutStartT == TDen - fadeOutTime
        alpha         == calculateLifecycleAlpha(p)
    IN  IF ~params.lifecycle.enabled THEN p
        ELSE IF p.path.closed THEN [p EXCEPT !.uLifecycleAlpha = alpha]
        ELSE IF PastFadeOutStart(p)
               THEN [p EXCEPT !.uLifecycleAlpha =
                        RMul(alpha, RSub(One, Rat(p.currentT - fadeOutStartT,
                                                  fadeOutTime)))]
        ELSE IF p.justReset /\ BeforeFadeInEnd(p)
               THEN [p EXCEPT !.uLifecycleAlpha =
                                 RMul(alpha, Rat(p.currentT, fadeInTime)),
                              !.justReset =
                                 IF ~BeforeFadeInEnd(p) THEN FALSE ELSE TRUE]
        ELSE IF p.justReset
               THEN [p EXCEPT !.uLifecycleAlpha = alpha, !.justReset = FALSE]
        ELSE [p EXCEPT !.uLifecycleAlpha = alpha]

(* GlowParticleSystem.update(): one draw per particle *)
GlowParticleSystem_update(particles, draws) ==
    [i \in 1..Len(particles) |-> GlowParticleSystem_updateOne(particles[i], draws[i])]

-----------------------------------------------------------------------------
(* recreateSystem(): the path of the selected family (lines 1296-1336)     *)

PathFor_unknownIsOpen(curveType) ==
    IF curveType = "lorenz" THEN [closed |-> FALSE, family |-> "lorenz"]
    ELSE IF curveType = "juggling" THEN [closed |-> TRUE, family |-> "juggling"]
    ELSE IF curveType = "viviani" THEN [closed |-> TRUE, family |-> "viviani"]
    ELSE [closed |-> FALSE, family |-> "viviani"]

PathFor(curveType) ==
    IF curveType = "lorenz" THEN [closed |-> FALSE, family |-> "lorenz"]
    ELSE IF curveType = "juggling" THEN [closed |-> TRUE, family |-> "juggling"]
    ELSE [closed |-> TRUE, family |-> "viviani"]

(* GlowParticleSystem.createParticles(); one record of draws per particle *)
GlowParticleSystem_createParticles(path, draws) ==
    [i \in 1..params.numParticles |->
        GlowParticle(path,
                     [trailLength |-> params.glow.trailLength,
                      speedFactor |-> params.glow.speedFactor,
                      scatterRadius |-> params.particleScatterRadius],
                     draws[i])]

-----------------------------------------------------------------------------
(* SpecGlow: a trail system after recreateSystem(), ticked by animate().   *)

GlowLifecycles ==
    {[enabled |-> TRUE, fadeInTime |-> Centi(9), stableTime |-> Centi(90),
      fadeOutTime |-> Centi(20), randomOffset |-> TDen],
     [enabled |-> TRUE, fadeInTime |-> Centi(50), stableTime |-> Centi(10),
      fadeOutTime |-> Centi(50), randomOffset |-> TDen],
     [enabled |-> TRUE, fadeInTime |-> Centi(1), stableTime |-> Centi(10),
      fadeOutTime |-> Centi(1), randomOffset |-> TDen],
     [enabled |-> TRUE, fadeInTime |-> Centi(42), stableTime |-> Centi(10),
      fadeOutTime |-> Centi(16), randomOffset |-> TDen],
     [enabled |-> FALSE, fadeInTime |-> Centi(9), stableTime |-> Centi(90),
      fadeOutTime |-> Centi(20), randomOffset |-> TDen]}

(* a particle built at 0.29 with the offset 0.5 reaches currentT = 0.5 in  *)
(* exact arithmetic: with the multiplier 0.75 the double it holds is below *)
(* 0.5 and its lifecycle position just below 1, with the multiplier 1.0    *)
(* the position is 0.  With the multiplier 0.75 and fadeInTime 0.42 the    *)
(* eightieth tick after a wrap leaves a double below fadeInTime whose      *)
(* exact value is fadeInTime                                               *)
GlowConstructorDraws ==
    [t : {Centi(29), Centi(49), Centi(97)}, mult : {1, 2},
     offset : {0, 2}, scatter : ScatterDraws]

InitGlow ==
    /\ \E lc \in GlowLifecycles, ct \in {"lorenz", "viviani"},
          len \in 1..MaxTrailLength :
          params = [TunedParams EXCEPT !.particleType = "glow",
                                         !.curveType = ct,
                                         !.lifecycle = lc,
                                         !.glow.trailLength = len]
    /\ curvePath = PathFor(params.curveType)
    /\ \E draws \in [1..params.numParticles -> GlowConstructorDraws] :
          particleSystem =
             [type |-> "glow",
              particles |-> GlowParticleSystem_createParticles(curvePath, draws)]
    /\ probe = NoProbe
    /\ history = NoHistory
    /\ scene = NoScene

(* animate(): particleSystem.update() on the trail manager *)
GlowAnimate ==
    /\ particleSystem.type = "glow"
    /\ \E draws \in [1..Len(particleSystem.particles) -> ScatterDraws] :
          particleSystem' =
             [particleSystem EXCEPT !.particles =
                 GlowParticleSystem_update(particleSystem.particles, draws)]
    /\ UNCHANGED <<params, curvePath, scene, probe, history>>

NextGlow == GlowAnimate

SpecGlow == InitGlow /\ [][NextGlow]_vars

GlowParticles ==
    {particleSystem.particles[i] : i \in 1..Len(particleSystem.particles)}

(* C4: in a GlowParticle.update() tick where currentT + speed >= 1,        *)
(* currentT becomes 0, a new scatterOffset is drawn, and every trail       *)
(* sample ends the tick equal to path(0) + the new scatterOffset.          *)
C4_WrapTeleportsTrail ==
    [][GlowAnimate =>
         \A i \in 1..Len(particleSystem.particles) :
            LET p == particleSystem.particles[i]
                q == particleSystem'.particles[i]
            IN  reachesOne(p, params.glow.speedFactor)
                => /\ q.currentT = 0
                   /\ \E s \in ScatterDraws :
                         q.scatterOffset =
                            ScatterVector(s, params.particleScatterRadius)
                   /\ Len(q.trailPositions) = q.trailLength
                   /\ \A k \in 1..q.trailLength :
                         q.trailPositions[k] = [t |-> 0, off |-> q.scatterOffset]]_vars

(* A particle that has just wrapped on the open path: a trail of at least  *)
(* two samples, all at path(0) + scatterOffset.                            *)
C4_Witness ==
    \E p \in GlowParticles :
       /\ p.justReset
       /\ p.currentT = 0
       /\ p.trailLength >= 2
       /\ \A k \in 1..p.trailLength :
             p.trailPositions[k] = [t |-> 0, off |-> p.scatterOffset]

(* C5: after construction and after every tick, for trailLength >= 1 the   *)
(* weight of sample i is 1 - i / max(1, trailLength - 1): head 1, tail 0   *)
(* for trailLength >= 2, a single sample 1, every weight in [0,1], and the *)
(* division is never by zero.                                              *)
C5_TrailWeightsLinear ==
    \A p \in GlowParticles :
       p.trailLength >= 1 =>
          LET den == IF p.trailLength - 1 >= 1 THEN p.trailLength - 1 ELSE 1
          IN  /\ Len(p.trailAlphas) = p.trailLength
              /\ \A i \in 0..(p.trailLength - 1) :
                    LET w == p.trailAlphas[i + 1]
                    IN  /\ w[2] > 0
                        /\ w[1] * den = (den - i) * w[2]
                        /\ 0 <= w[1] /\ w[1] <= w[2]
                        /\ TrailAlphaAt(i, p.trailLength)[2] # 0
              /\ p.trailAlphas[1] = <<1, 1>>
              /\ (p.trailLength >= 2 => p.trailAlphas[p.trailLength] = <<0, 1>>)
              /\ (p.trailLength = 1 => p.trailAlphas = << <<1, 1>> >>)

(* A ticked particle with three samples: weights 1, 1/2, 0.                *)
C5_Witness ==
    \E p \in GlowParticles :
       /\ p.trailLength = 3
       /\ p.justReset
       /\ p.trailAlphas = << <<1, 1>>, <<1, 2>>, <<0, 1>> >>

(* C9: on an open path with the lifecycle enabled, justReset is set in the *)
(* tick the particle wraps, stays set while currentT < fadeIn, and is      *)
(* cleared in the first tick where currentT >= fadeIn (currentT and fadeIn *)
(* compared as the doubles the code holds).                                *)
C9_ResetFlagFollowsFadeIn ==
    [][GlowAnimate =>
         \A i \in 1..Len(particleSystem.particles) :
            LET p == particleSystem.particles[i]
                q == particleSystem'.particles[i]
                wraps == reachesOne(p, params.glow.speedFactor)
            IN  (~p.path.closed /\ params.lifecycle.enabled)
                => /\ wraps => q.justReset
                   /\ (p.justReset /\ BeforeFadeInEnd(q)) => q.justReset
                   /\ ~BeforeFadeInEnd(q) => ~q.justReset]_vars

-----------------------------------------------------------------------------
(* WeldingSpark.  A spark position origin + sum of velocities is the       *)
(* record [t, off, d]: path.getPointAt(t) + off (the scatter offset) + d,  *)
(* d in units of 1/VelDen.  A zero-filled Float32Array slot holds the      *)
(* point (0,0,0), written with t = -1.  Spark lives are in units of        *)
(* 1/LifeDen, sizes are [base, shrinks]: base / SizeDen * 0.98^shrinks.    *)
(* An entry of velocities is a reference to a THREE.Vector3: [id, v], id   *)
(* the identity of the object (the number of vectors emitSparks() had      *)
(* created before it) and v its value; entries with one id are one object. *)

VelDen == 1000

LifeDen == 1000

SizeDen == 100

VAdd(a, b) == <<a[1] + b[1], a[2] + b[2], a[3] + b[3]>>

ZeroPosition == [t |-> -1, off |-> <<0, 0, 0>>, d |-> <<0, 0, 0>>]

ZeroSize == [base |-> 0, shrinks |-> 0]

(* velocities[idx] = v on a JavaScript array (idx <= length) *)
SetAt(arr, idx, v) ==
    IF idx = Len(arr) + 1 THEN Append(arr, v) ELSE [arr EXCEPT ![idx] = v]

(* Math.floor(2 + Math.random() * 5) *)
numNewSparks(r) == (2 * TDen + 5 * r) \div TDen

(* (0.2 + Math.random() * 0.8) * params.weldingSpark.sparkSize; the draw   *)
(* r is in quarters                                                        *)
SparkSizeBase(r) ==
    ((2 * RandDen + 8 * r) * params.weldingSpark.sparkSize * SizeDen)
       \div (10 * RandDen * 10)

(* 0.03 + Math.random() * 0.02; the draw r is in twentieths *)
LifeDecrement_fromTwoHundredths(r) ==
    ((2 * DecDen + 2 * r) * LifeDen) \div (100 * DecDen)

LifeDecrement(r) == ((3 * DecDen + 2 * r) * LifeDen) \div (100 * DecDen)

(* the positions.length / 3 of the capacity test *)
SparkCapacity_unbounded(p) == Len(p.positions) + 1

SparkCapacity(p) == Len(p.positions)

(* the for loop of emitSparks(), lines 614-656, from iteration i on *)
RECURSIVE emitSparksLoop(_, _, _, _)
emitSparksLoop(p, i, num, sparks) ==
    IF i >= num THEN p
    ELSE IF p.activeParticles >= SparkCapacity(p) THEN p
    ELSE LET slot == p.activeParticles + 1
             origin == [t |-> p.currentT, off |-> p.scatterOffset,
                        d |-> <<0, 0, 0>>]
         IN  emitSparksLoop(
                [p EXCEPT !.positions = SetAt(@, slot, origin),
                          !.sizes = SetAt(@, slot,
                                          [base |-> SparkSizeBase(sparks[i + 1].size),
                                           shrinks |-> 0]),
                          !.sparkLives = SetAt(@, slot, LifeDen),
                          !.sparkLifeBits = SetAt(@, slot, DoubleOne),
                          !.velocities = SetAt(@, slot,
                                               [id |-> p.vectorsCreated,
                                                v |-> sparks[i + 1].velocity]),
                          !.vectorsCreated = @ + 1,
                          !.activeParticles = @ + 1],
                i + 1, num, sparks)

(* WeldingSpark.emitSparks(); burst holds the draws of the call *)
emitSparks(p, burst) ==
    LET q == emitSparksLoop(p, 0, numNewSparks(burst.count), burst.sparks)
    IN  [q EXCEPT !.drawRange = <<0, q.activeParticles>>]

(* new WeldingSpark(path, options); d holds the constructor's draws *)
WeldingSpark(path, options, d) ==
    LET baseSpeedRandomness ==
            (MultDen \div 2) + (3 * d.mult * MultDen) \div (2 * RandDen)
        maxParticles == options.trailLength * 3
    IN  emitSparks(
           [kind |-> "weldingSpark",
            path |-> path,
            maxLife |-> options.trailLength,
            currentT |-> d.t,
            currentTBits |-> DoubleOfRatio(d.t, TDen),
            baseSpeedRandomness |-> baseSpeedRandomness,
            speed |-> options.speedFactor * baseSpeedRandomness,
            lifecycleOffset |->
               (d.offset * params.lifecycle.randomOffset) \div RandDen,
            lifecycleOffsetBits |->
               OffsetBits(d.offset, params.lifecycle.randomOffset),
            scatterOffset |-> ScatterVector(d.scatter, options.scatterRadius),
            positions |-> [k \in 1..maxParticles |-> ZeroPosition],
            sizes |-> [k \in 1..maxParticles |-> ZeroSize],
            sparkLives |-> [k \in 1..maxParticles |-> 0],
            sparkLifeBits |-> [k \in 1..maxParticles |-> DoubleZero],
            velocities |-> <<>>,
            vectorsCreated |-> 0,
            activeParticles |-> 0,
            drawRange |-> <<0, -1>>,
            lifecycleAlpha |-> One],
           d.burst)

(* this.velocities[i].y -= 0.001: the vector is changed in place, so every *)
(* entry of velocities that refers to it shows the new value               *)
ApplyGravity(velocities, i) ==
    LET o == velocities[i + 1]
        v == <<o.v[1], o.v[2] - 1, o.v[3]>>
    IN  [k \in DOMAIN velocities |->
            IF velocities[k].id = o.id THEN [id |-> o.id, v |-> v]
            ELSE velocities[k]]

(* the body of the loop over the active sparks for a spark that stays      *)
(* alive: gravity, integration, shrink, and the move to slot aliveCount    *)
(* (lines 688-711); i and aliveCount are 0-based as in the source          *)
KeepSpark_sizeNotMoved(p, i, aliveCount) ==
    LET vel == ApplyGravity(p.velocities, i)
        pos == [p.positions[i + 1] EXCEPT !.d = VAdd(@, vel[i + 1].v)]
        sz  == [p.sizes[i + 1] EXCEPT !.shrinks = @ + 1]
        q   == [p EXCEPT !.velocities = vel,
                         !.positions[i + 1] = pos,
                         !.sizes[i + 1] = sz]
    IN  IF i # aliveCount
          THEN [q EXCEPT !.positions[aliveCount + 1] = pos,
                         !.sparkLives[aliveCount + 1] = q.sparkLives[i + 1],
                         !.sparkLifeBits[aliveCount + 1] =
                            q.sparkLifeBits[i + 1],
                         !.velocities[aliveCount + 1] = vel[i + 1]]
          ELSE q

KeepSpark(p, i, aliveCount) ==
    LET vel == ApplyGravity(p.velocities, i)
        pos == [p.positions[i + 1] EXCEPT !.d = VAdd(@, vel[i + 1].v)]
        sz  == [p.sizes[i + 1] EXCEPT !.shrinks = @ + 1]
        q   == [p EXCEPT !.velocities = vel,
                         !.positions[i + 1] = pos,
                         !.sizes[i + 1] = sz]
    IN  IF i # aliveCount
          THEN [q EXCEPT !.positions[aliveCount + 1] = pos,
                         !.sizes[aliveCount + 1] = sz,
                         !.sparkLives[aliveCount + 1] = q.sparkLives[i + 1],
                         !.sparkLifeBits[aliveCount + 1] =
                            q.sparkLifeBits[i + 1],
                         !.velocities[aliveCount + 1] = vel[i + 1]]
          ELSE q

(* 0.03 + Math.random() * 0.02 as a double, for the draws in twentieths *)
DecDoubles ==
    [r \in 0..(DecDen - 1) |->
        DoubleAdd(DoubleOfRatio(3, 100),
                  DoubleTimes(DoubleOfRatio(r, DecDen), DoubleOfRatio(2, 100)))]

(* this.sparkLives[i] -= dec on the element of the Float32Array: the       *)
(* difference of the doubles, rounded to a double and then to a float      *)
LoweredLife(lifeBits, decBits) ==
    IF DoubleLess(lifeBits, decBits)
      THEN DoubleNeg(FloatRound(DoubleSub(decBits, lifeBits)))
      ELSE FloatRound(DoubleSub(lifeBits, decBits))

(* the test `this.sparkLives[i] > 0` of line 688, on the element of the    *)
(* Float32Array                                                            *)
SparkAlive_always(lifeBits) == TRUE

SparkAlive(lifeBits) == DoublePositive(lifeBits)

(* the loop over the active sparks, lines 684-713, from iteration i on;    *)
(* returns the particle and the final aliveCount                           *)
RECURSIVE updateSparksLoop(_, _, _, _, _)
updateSparksLoop(p, i, n, aliveCount, decs) ==
    IF i >= n THEN [p |-> p, aliveCount |-> aliveCount]
    ELSE LET q == [p EXCEPT !.sparkLives[i + 1] =
                               @ - LifeDecrement(decs[i + 1]),
                            !.sparkLifeBits[i + 1] =
                               LoweredLife(@, DecDoubles[decs[i + 1]])]
         IN  IF SparkAlive(q.sparkLifeBits[i + 1])
               THEN updateSparksLoop(KeepSpark(q, i, aliveCount), i + 1, n,
                                     aliveCount + 1, decs)
               ELSE updateSparksLoop(q, i + 1, n, aliveCount, decs)

(* WeldingSpark.update() up to the loop over the sparks (lines 662-680):   *)
(* a wrap that also starts the particle's fade cycle again *)
WeldingSpark_advance_restartsCycle(p0, d) ==
    LET speed    == params.weldingSpark.speedFactor * p0.baseSpeedRandomness
        advanced == p0.currentT + speed
        sumBits  == advancedBits(p0, params.weldingSpark.speedFactor)
        wraps    == DoubleAtLeastOne(sumBits)
        p1 == [p0 EXCEPT !.speed = speed,
                         !.currentT = IF wraps THEN 0 ELSE advanced,
                         !.currentTBits = IF wraps THEN DoubleZero ELSE sumBits,
                         !.lifecycleOffset = IF wraps THEN 0 ELSE @,
                         !.lifecycleOffsetBits =
                            IF wraps THEN DoubleZero ELSE @,
                         !.scatterOffset =
                            IF wraps
                              THEN ScatterVector(d.scatter,
                                                 params.particleScatterRadius)
                              ELSE @]
    IN  IF 10 * d.emit > 7 * TDen THEN emitSparks(p1, d.burst) ELSE p1

(* the move along the path, the wrap, and the emission when one is drawn;  *)
(* d holds the draws of the tick: scatter (used on a wrap), emit (the draw *)
(* compared with 0.7), burst, decs (one life decrement per slot)           *)
WeldingSpark_advance(p0, d) ==
    LET speed    == params.weldingSpark.speedFactor * p0.baseSpeedRandomness
        advanced == p0.currentT + speed
        sumBits  == advancedBits(p0, params.weldingSpark.speedFactor)
        wraps    == DoubleAtLeastOne(sumBits)
        p1 == [p0 EXCEPT !.speed = speed,
                         !.currentT = IF wraps THEN 0 ELSE advanced,
                         !.currentTBits = IF wraps THEN DoubleZero ELSE sumBits,
                         !.scatterOffset =
                            IF wraps
                              THEN ScatterVector(d.scatter,
                                                 params.particleScatterRadius)
                              ELSE @]
    IN  IF 10 * d.emit > 7 * TDen THEN emitSparks(p1, d.burst) ELSE p1

(* WeldingSpark.update() *)
WeldingSpark_update(p0, d) ==
    LET p2 == WeldingSpark_advance(p0, d)
        r  == updateSparksLoop(p2, 0, p2.activeParticles, 0, d.decs)
    IN  [r.p EXCEPT !.activeParticles = r.aliveCount,
                    !.drawRange = <<0, r.aliveCount>>]

(* the body of the forEach of WeldingSparkParticleSystem.update() *)
WeldingSparkParticleSystem_updateOne(p0, d) ==
    LET p == WeldingSpark_update(p0, d)
    IN  IF params.lifecycle.enabled
          THEN [p EXCEPT !.lifecycleAlpha = calculateLifecycleAlpha(p)]
          ELSE p

(* WeldingSparkParticleSystem.update(): one record of draws per particle *)
WeldingSparkParticleSystem_update(particles, draws) ==
    [i \in 1..Len(particles) |->
        WeldingSparkParticleSystem_updateOne(particles[i], draws[i])]

(* WeldingSparkParticleSystem.createParticles() *)
WeldingSparkParticleSystem_createParticles(path, draws) ==
    [i \in 1..params.numParticles |->
        WeldingSpark(path,
                     [trailLength |-> params.weldingSpark.trailLength,
                      speedFactor |-> params.weldingSpark.speedFactor,
                      scatterRadius |-> params.particleScatterRadius],
                     draws[i])]

-----------------------------------------------------------------------------
(* SpecSpark: a burst system after recreateSystem(), ticked by animate().  *)

MaxSparkTrailLength == 1

MaxBursts == 2

(* the draws of a life decrement: 0.75 (a decrement of 0.045) and 0.95 (a  *)
(* decrement of 0.049); no sum of these decrements is exactly 1            *)
SlowDecay == 3 * (DecDen \div 4)

FastDecay == DecDen - 1

(* the draws 0.85 (a decrement of 0.047) and 0.9 (a decrement of 0.048):   *)
(* of the twenty-one ticks a spark lives under them, eight of the first    *)
(* and then thirteen of the second sum to exactly 1, and the float the     *)
(* code holds after them is above 0                                        *)
EvenSlowDecay == DecDen - 3

EvenFastDecay == DecDen - 2

EvenSlowTicks ==
    (LifeDen \div LifeDecrement(EvenSlowDecay)) * LifeDecrement(EvenFastDecay)
       - LifeDen

(* how the decrements of a run are drawn: slow for every spark, fast for   *)
(* the sparks of the even slots, fast for the sparks of the odd slots, or  *)
(* for every spark the draws that sum to exactly 1                         *)
SparkSchedules == {"slow", "evenSlotsFast", "oddSlotsFast", "evenSum"}

(* the draw of the life decrement of slot k in the given tick *)
ScheduledDecay(schedule, tick, k) ==
    CASE schedule = "evenSum" ->
            IF tick < EvenSlowTicks THEN EvenSlowDecay ELSE EvenFastDecay
      [] schedule = "evenSlotsFast" ->
            IF k % 2 = 0 THEN FastDecay ELSE SlowDecay
      [] schedule = "oddSlotsFast" ->
            IF k % 2 = 1 THEN FastDecay ELSE SlowDecay
      [] OTHER -> SlowDecay

(* the ticks followed: the longest life of a spark and three ticks more *)
MaxSparkTicks == (LifeDen \div LifeDecrement(SlowDecay)) + 3

(* the draws of the scatter offset: one in the constructor, another on a   *)
(* wrap                                                                    *)
SparkScatterAtStart == {<<0, 2, 3>>}

SparkScatterAtWrap == {<<3, 1, 0>>}

SparkDrawA == [velocity |-> <<100, 50, 0>>, size |-> 0]

SparkDrawB == [velocity |-> <<0, -80, 120>>, size |-> 2]

BurstDraws ==
    {[count |-> 0,
      sparks |-> <<SparkDrawA, SparkDrawB, SparkDrawA, SparkDrawB, SparkDrawA,
                   SparkDrawB>>],
     [count |-> TDen - 1,
      sparks |-> <<SparkDrawB, SparkDrawA, SparkDrawB, SparkDrawA, SparkDrawB,
                   SparkDrawA>>]}

NoBurst == CHOOSE b \in BurstDraws : b.count = 0

(* the draws of the life decrements of one tick, one per pool slot *)
DecDraws(n) ==
    {[k \in 1..n |-> ScheduledDecay(history.schedule, history.ticks, k)]}

(* the draw compared with 0.7 and, when it emits, the draws of the burst:  *)
(* a tick that emits draws the long burst                                  *)
EmitDraws(mayEmit) ==
    {[emit |-> 0, burst |-> NoBurst]}
       \cup IF mayEmit
              THEN {[emit |-> 3 * (TDen \div 4), burst |-> b] :
                       b \in BurstDraws \ {NoBurst}}
              ELSE {}

SparkTickDraws(p, mayEmit) ==
    {[scatter |-> s, emit |-> e.emit, burst |-> e.burst, decs |-> dd] :
        s \in IF reachesOne(p, params.weldingSpark.speedFactor)
                THEN SparkScatterAtWrap ELSE {<<0, 0, 0>>},
        e \in EmitDraws(mayEmit),
        dd \in DecDraws(Len(p.positions))}

SparkConstructorDraws ==
    [t : {Centi(97)}, mult : {2}, offset : {2},
     scatter : SparkScatterAtStart, burst : BurstDraws]

InitSpark ==
    /\ \E len \in 1..MaxSparkTrailLength :
          params = [TunedParams EXCEPT !.particleType = "weldingSpark",
                                         !.weldingSpark.trailLength = len]
    /\ curvePath = PathFor(params.curveType)
    /\ \E draws \in [1..params.numParticles -> SparkConstructorDraws] :
          particleSystem =
             [type |-> "weldingSpark",
              particles |->
                 WeldingSparkParticleSystem_createParticles(curvePath, draws)]
    /\ probe = NoProbe
    /\ \E sch \in SparkSchedules :
          history = [ticks |-> 0, bursts |-> 0, retuned |-> FALSE,
                     schedule |-> sch]
    /\ scene = NoScene

BurstsIn(draws) ==
    IF \E i \in DOMAIN draws : 10 * draws[i].emit > 7 * TDen THEN 1 ELSE 0

(* animate(): particleSystem.update() on the burst manager *)
SparkAnimate ==
    /\ particleSystem.type = "weldingSpark"
    /\ history.ticks < MaxSparkTicks
    /\ \E d \in SparkTickDraws(particleSystem.particles[1],
                               history.bursts < MaxBursts) :
          LET draws == [i \in 1..Len(particleSystem.particles) |-> d]
          IN  /\ particleSystem' =
                    [particleSystem EXCEPT !.particles =
                        WeldingSparkParticleSystem_update(
                           particleSystem.particles, draws)]
              /\ history' = [history EXCEPT
                             !.ticks = @ + 1,
                             !.bursts = @ + BurstsIn(draws)]
    /\ UNCHANGED <<params, curvePath, scene, probe>>

NextSpark == SparkAnimate

SpecSpark == InitSpark /\ [][NextSpark]_vars

SparkParticles ==
    {particleSystem.particles[i] : i \in 1..Len(particleSystem.particles)}


-----------------------------------------------------------------------------
(* Claims about the burst particle, checked under SpecSpark.               *)

(* C1: a burst particle built with trail length L never counts fewer than  *)
(* 0 or more than 3*L live sparks, after construction and after every      *)
(* tick, with or without an emission; an emission that would pass the      *)
(* capacity adds only the sparks that fit, and the pool keeps its 3*L      *)
(* slots.                                                                  *)
C1_LiveCountWithinCapacity ==
    particleSystem.type = "weldingSpark" =>
       \A p \in SparkParticles :
          /\ 0 <= p.activeParticles
          /\ p.activeParticles <= 3 * p.maxLife
          /\ Len(p.positions) = 3 * p.maxLife
          /\ Len(p.sizes) = 3 * p.maxLife
          /\ Len(p.sparkLives) = 3 * p.maxLife

(* a tick emitted into a pool with one free slot: the pool is full, its    *)
(* last spark is one tick old and the spark before it is older, so of the  *)
(* two or more sparks of the burst only one was added                      *)
C1_Witness ==
    /\ particleSystem.type = "weldingSpark"
    /\ history.bursts >= 1
    /\ \E p \in SparkParticles :
          /\ p.activeParticles = 3 * p.maxLife
          /\ p.sizes[p.activeParticles].shrinks = 1
          /\ p.sizes[p.activeParticles - 1].shrinks > 1

(* a step that is a tick of the burst system *)
SparkTicked ==
    /\ particleSystem.type = "weldingSpark"
    /\ history'.ticks = history.ticks + 1

(* the identities of the sparks a particle counts as live *)
LiveSparkIds(p) == {p.velocities[k].id : k \in 1..p.activeParticles}

(* the life the spark in slot k of q holds after the decrement drawn as r, *)
(* as the element of the Float32Array                                      *)
LifeAfter(q, k, r) == LoweredLife(q.sparkLifeBits[k], DecDoubles[r])

(* C2: in every tick each spark that is live when the loop over the sparks *)
(* starts loses a strictly positive amount of life; it is still counted    *)
(* live after the tick, with the lowered life, exactly when that life is   *)
(* > 0, and it is gone from the live set exactly when that life is <= 0;   *)
(* no spark counted live after a tick has life <= 0.  The life is the      *)
(* element of sparkLives, a float.                                         *)
C2_LifeFallsAndDeathRemoves ==
    [][SparkTicked =>
        \A n \in 1..Len(particleSystem.particles) :
           LET p0 == particleSystem.particles[n]
               p  == particleSystem.particles'[n]
           IN  /\ \A j \in 1..p.activeParticles :
                     DoublePositive(p.sparkLifeBits[j])
               /\ \E d \in SparkTickDraws(p0, TRUE) :
                     LET q == WeldingSpark_advance(p0, d)
                     IN  /\ LiveSparkIds(p) \subseteq LiveSparkIds(q)
                         /\ \A k \in 1..q.activeParticles :
                               LET life == LifeAfter(q, k, d.decs[k])
                                   id   == q.velocities[k].id
                               IN  /\ DoubleLess(life, q.sparkLifeBits[k])
                                   /\ IF DoublePositive(life)
                                        THEN \E j \in 1..p.activeParticles :
                                                /\ p.velocities[j].id = id
                                                /\ p.sparkLifeBits[j] = life
                                                /\ p.sparkLives[j]
                                                      = q.sparkLives[k]
                                                        - LifeDecrement(d.decs[k])
                                        ELSE id \notin LiveSparkIds(p)]_vars

(* a tick has removed a spark whose life fell to <= 0 (its slot behind the *)
(* live prefix still shows that life) and kept a spark whose life fell but *)
(* stayed > 0                                                              *)
C2_Witness ==
    /\ particleSystem.type = "weldingSpark"
    /\ history.ticks > 0
    /\ \E p \in SparkParticles :
          /\ \E k \in (p.activeParticles + 1)..Len(p.velocities) :
                /\ ~DoublePositive(p.sparkLifeBits[k])
                /\ p.sparkLives[k] <= 0
                /\ p.velocities[k].id \notin LiveSparkIds(p)
          /\ \E j \in 1..p.activeParticles :
                /\ DoublePositive(p.sparkLifeBits[j])
                /\ DoubleLess(p.sparkLifeBits[j], DoubleOne)

(* the position, velocity, size and life found in slot k of a particle *)
SparkAt(p, k) ==
    [position |-> p.positions[k], velocity |-> p.velocities[k],
     size |-> p.sizes[k], life |-> p.sparkLives[k],
     lifeBits |-> p.sparkLifeBits[k]]

(* what one tick makes of the spark in slot k when it stays alive: gravity *)
(* on the velocity, the velocity added to the position, the size shrunk    *)
(* once, the life lowered by the decrement drawn as r                      *)
SparkAfterTick(p, k, r) ==
    LET v == <<p.velocities[k].v[1], p.velocities[k].v[2] - 1,
               p.velocities[k].v[3]>>
    IN  [position |-> [p.positions[k] EXCEPT !.d = VAdd(@, v)],
         velocity |-> [id |-> p.velocities[k].id, v |-> v],
         size |-> [p.sizes[k] EXCEPT !.shrinks = @ + 1],
         life |-> p.sparkLives[k] - LifeDecrement(r),
         lifeBits |-> LifeAfter(p, k, r)]

(* C3: after every tick the slots 1..activeParticles hold exactly the      *)
(* sparks whose lowered life is > 0: every such spark is found in exactly  *)
(* one of these slots with its own position, velocity, size and life, the  *)
(* number of slots is the number of such sparks, and the draw range is     *)
(* [0, activeParticles).                                                   *)
C3_PrefixHoldsTheSurvivors ==
    [][SparkTicked =>
        \A n \in 1..Len(particleSystem.particles) :
           LET p0 == particleSystem.particles[n]
               p  == particleSystem.particles'[n]
           IN  /\ p.drawRange = <<0, p.activeParticles>>
               /\ \E d \in SparkTickDraws(p0, TRUE) :
                     LET q == WeldingSpark_advance(p0, d)
                         survivors ==
                            {k \in 1..q.activeParticles :
                                DoublePositive(LifeAfter(q, k, d.decs[k]))}
                     IN  /\ p.activeParticles = Cardinality(survivors)
                         /\ \A k \in survivors :
                               Cardinality(
                                  {j \in 1..p.activeParticles :
                                      SparkAt(p, j) =
                                         SparkAfterTick(q, k, d.decs[k])}) = 1]_vars

(* a tick has moved a surviving spark to a lower slot: the slot it left,   *)
(* now behind the live prefix, still refers to the velocity vector of a    *)
(* spark of the prefix, and a dead spark's slot was reused                 *)
C3_Witness ==
    /\ particleSystem.type = "weldingSpark"
    /\ history.ticks > 0
    /\ \E p \in SparkParticles :
          /\ p.activeParticles >= 1
          /\ p.drawRange = <<0, p.activeParticles>>
          /\ \E k \in (p.activeParticles + 1)..Len(p.velocities) :
                \E j \in 1..p.activeParticles :
                   /\ p.velocities[k].id = p.velocities[j].id
                   /\ p.positions[j] = p.positions[k]


(* C8: on an open path the lifecycle multiplier written by the tick of a   *)
(* burst system carries the seam correction: it is 0 on the tick in which  *)
(* the particle wraps from the end of the path back to t = 0.              *)
C8_SeamCorrectionOnBurstWrap ==
    [][SparkTicked =>
        \A n \in 1..Len(particleSystem.particles) :
           LET p0 == particleSystem.particles[n]
               p  == particleSystem.particles'[n]
           IN  (/\ ~curvePath.closed
                /\ reachesOne(p0, params.weldingSpark.speedFactor)
                /\ p.currentT = 0)
                  => p.lifecycleAlpha = Zero]_vars


-----------------------------------------------------------------------------
(* Comet.  params.comet.tailWidth is in units of 1/TailWidthDen (the step  *)
(* of its slider).  A tail point is [t, off, strand]: path.getPointAt(t) + *)
(* off (the scatter offset) + the lateral offset of a wide strand, which   *)
(* is written [index, of]: length (index + 1) * 0.05 at the angle          *)
(* index / of * 2 * PI; the primary tail has no lateral offset.            *)

TailWidthDen == 10

(* Math.floor(tailWidth * 2) *)
numExtraLines(tailWidth) == (tailWidth * 2) \div TailWidthDen

StrandOffset(i, n) == [index |-> i, of |-> n]

NoStrandOffset == [index |-> -1, of |-> 0]

(* 1.0 - (i / Math.max(1, this.tailLength - 1)) *)
TailFadeAt(i, tailLength) ==
    Rat(Max(1, tailLength - 1) - i, Max(1, tailLength - 1))

(* the path parameter of a tail sample is in units of 1/TailDen, on which  *)
(* 0.95 of a speed is exact                                                *)
TailDen == 20 * TDen

(* ((t % 1) + 1) % 1 on a tail sample *)
WrapTail(t) == ((t % TailDen) + TailDen) % TailDen

(* this.speed * 0.95 as a double, for the positions of a Speed Factor      *)
(* slider and the multipliers 0.5 to 2                                     *)
SegmentDoubles ==
    [speedFactor \in 0..(SfDen \div 100) |->
        [baseSpeedRandomness \in (MultDen \div 2)..(2 * MultDen) |->
            DoubleTimes(DoubleSpeed(speedFactor, baseSpeedRandomness),
                        DoubleOfRatio(95, 100))]]

(* ((t % 1) + 1) % 1 for t = c - s, on the doubles c >= 0 and s >= 0: the  *)
(* remainder of JavaScript has the sign of t                               *)
WrapBits(c, s) ==
    IF DoubleLess(c, s)
      THEN DoubleFrac(DoubleSub(DoubleOne, DoubleFrac(DoubleSub(s, c))))
      ELSE DoubleFrac(DoubleAdd(DoubleFrac(DoubleSub(c, s)), DoubleOne))

(* the t of tail sample k, as the double updateTailGeometry() computes:    *)
(* this.currentT - (i * tailSegmentLength) for i = k - 1, wrapped          *)
tailSampleBits(p, k) ==
    WrapBits(p.currentTBits,
             DoubleTimesInt(
                SegmentDoubles[p.speed \div p.baseSpeedRandomness]
                              [p.baseSpeedRandomness],
                k - 1))

(* the t of tail sample k.  Where currentT - i * tailSegmentLength is a    *)
(* whole number in exact arithmetic, the double is 0, just above 0 or just *)
(* below 1 (written TailDen)                                               *)
tailSampleT(p, k, segment) ==
    IF ((TailDen \div TDen) * p.currentT - (k - 1) * segment) % TailDen = 0
      THEN IF DoubleLess(tailSampleBits(p, k), DoubleOfRatio(1, 2))
             THEN 0 ELSE TailDen
      ELSE WrapTail((TailDen \div TDen) * p.currentT - (k - 1) * segment)

(* this.speed * 0.95 *)
tailSegmentLength(speed) == (speed * 95 * (TailDen \div TDen)) \div 100

(* the positions updateTailGeometry() writes: one sample per tail index,   *)
(* going backwards along the curve from currentT, wrapped into [0, 1)      *)
updateTailGeometry_headOnlyOffset(p, segment, offsetVector) ==
    [k \in 1..p.tailLength |->
        [t |-> tailSampleT(p, k, segment),
         off |-> p.scatterOffset,
         strand |-> IF k = 1 THEN offsetVector ELSE NoStrandOffset]]

updateTailGeometry(p, segment, offsetVector) ==
    [k \in 1..p.tailLength |->
        [t |-> tailSampleT(p, k, segment),
         off |-> p.scatterOffset,
         strand |-> offsetVector]]

(* new Comet(path, options); d holds the constructor's draws *)
Comet(path, options, d) ==
    LET baseSpeedRandomness ==
            (MultDen \div 2) + (d.mult * MultDen) \div RandDen
        scatter    == ScatterVector(d.scatter, options.scatterRadius)
        initialPos == [t |-> (TailDen \div TDen) * d.t, off |-> scatter,
                       strand |-> NoStrandOffset]
        n          == numExtraLines(options.tailWidth)
    IN  [kind |-> "comet",
         path |-> path,
         tailLength |-> options.tailLength,
         currentT |-> d.t,
         currentTBits |-> DoubleOfRatio(d.t, TDen),
         baseSpeedRandomness |-> baseSpeedRandomness,
         speed |-> options.speedFactor * baseSpeedRandomness,
         lifecycleOffset |->
            (d.offset * params.lifecycle.randomOffset) \div RandDen,
         lifecycleOffsetBits |->
            OffsetBits(d.offset, params.lifecycle.randomOffset),
         scatterOffset |-> scatter,
         headPosition |-> PointAt(d.t, scatter),
         tailPositions |-> [k \in 1..options.tailLength |-> initialPos],
         tailFades |-> [k \in 1..options.tailLength |->
                           TailFadeAt(k - 1, options.tailLength)],
         headLifecycleAlpha |-> One,
         tailLifecycleAlpha |-> One,
         tailWidth |-> options.tailWidth,
         linewidth |-> options.tailWidth,
         wideTailMeshes |->
            [i \in 1..n |->
                [positions |-> [k \in 1..options.tailLength |->
                                   [initialPos EXCEPT
                                       !.strand = StrandOffset(i - 1, n)]],
                 tailWidth |-> options.tailWidth,
                 glowFactor |-> <<i - 1, n>>,
                 lifecycleAlpha |-> One]]]

(* Comet.update(); scatter is the draw used on a wrap *)
Comet_update(p0, scatter) ==
    LET speed    == params.comet.speedFactor * p0.baseSpeedRandomness
        advanced == p0.currentT + speed
        sumBits  == advancedBits(p0, params.comet.speedFactor)
        wraps    == DoubleAtLeastOne(sumBits)
        p1 == [p0 EXCEPT !.speed = speed,
                         !.currentT = IF wraps THEN 0 ELSE advanced,
                         !.currentTBits = IF wraps THEN DoubleZero ELSE sumBits,
                         !.scatterOffset =
                            IF wraps
                              THEN ScatterVector(scatter,
                                                 params.particleScatterRadius)
                              ELSE @]
        segment == tailSegmentLength(p1.speed)
        n  == Len(p1.wideTailMeshes)
    IN  [p1 EXCEPT
            !.headPosition = PointAt(p1.currentT, p1.scatterOffset),
            !.tailPositions = updateTailGeometry(p1, segment, NoStrandOffset),
            !.wideTailMeshes =
               [i \in 1..n |->
                   [p1.wideTailMeshes[i] EXCEPT
                       !.positions =
                          updateTailGeometry(p1, segment,
                                             StrandOffset(i - 1, n))]]]

(* the body of the forEach of CometParticleSystem.update() *)
CometParticleSystem_updateOne(p0, scatter) ==
    LET p == Comet_update(p0, scatter)
        lifecycleAlpha == calculateLifecycleAlpha(p)
    IN  IF params.lifecycle.enabled
          THEN [p EXCEPT
                  !.headLifecycleAlpha = lifecycleAlpha,
                  !.tailLifecycleAlpha = lifecycleAlpha,
                  !.wideTailMeshes =
                     [i \in 1..Len(p.wideTailMeshes) |->
                         [p.wideTailMeshes[i] EXCEPT
                             !.lifecycleAlpha = lifecycleAlpha]]]
          ELSE p

(* CometParticleSystem.update(): one scatter draw per particle *)
CometParticleSystem_update(particles, draws) ==
    [i \in 1..Len(particles) |->
        CometParticleSystem_updateOne(particles[i], draws[i])]

(* CometParticleSystem.createParticles(), read with the params prm *)
CometParticleSystem_createParticles(prm, path, draws) ==
    [i \in 1..prm.numParticles |->
        Comet(path,
              [tailLength |-> prm.comet.tailLength,
               tailWidth |-> prm.comet.tailWidth,
               speedFactor |-> prm.comet.speedFactor,
               scatterRadius |-> prm.particleScatterRadius],
              draws[i])]

(* the test of updateCometParams() that sends it to recreateSystem() *)
NeedsRebuild_never(targetExtraLines, lines) == FALSE

NeedsRebuild_fromTwo(targetExtraLines, lines) ==
    Abs(targetExtraLines - lines) >= 2

NeedsRebuild(targetExtraLines, lines) == Abs(targetExtraLines - lines) > 2

(* what updateCometParams() does to a comet it keeps: the uniforms of the  *)
(* primary tail, the line width, and the glow factor of every wide strand  *)
updateCometParams_keep(prm, p) ==
    LET n == Len(p.wideTailMeshes)
    IN  [p EXCEPT !.tailWidth = prm.comet.tailWidth,
                  !.linewidth = prm.comet.tailWidth,
                  !.wideTailMeshes =
                     [i \in 1..n |->
                         [p.wideTailMeshes[i] EXCEPT
                             !.glowFactor = <<i - 1, n>>]]]


(* recreateSystem() when params.particleType is 'comet', read with the     *)
(* params prm: the old system is cleared and a new one built               *)
recreateCometSystem(prm, draws) ==
    [type |-> "comet",
     particles |->
        CometParticleSystem_createParticles(prm, PathFor(prm.curveType),
                                            draws)]

(* CometParticleSystem.updateCometParams(), read with the params prm: the  *)
(* first comet whose strand count is too far from the target sends it to   *)
(* recreateSystem(), which empties the array the forEach walks             *)
CometParticleSystem_updateCometParams(prm, system, draws) ==
    IF \E i \in 1..Len(system.particles) :
          NeedsRebuild(numExtraLines(prm.comet.tailWidth),
                       Len(system.particles[i].wideTailMeshes))
      THEN recreateCometSystem(prm, draws)
      ELSE [system EXCEPT !.particles =
               [i \in 1..Len(system.particles) |->
                   updateCometParams_keep(prm, system.particles[i])]]

-----------------------------------------------------------------------------
(* SpecComet: a comet system after recreateSystem(), ticked by animate(),  *)
(* with the Tail Width and Tail Length sliders moved between ticks.        *)

MaxTailLength == 2

(* slider positions of Tail Width: 0.1, 0.8 (the default), 1.5, 2.5, 4.0 *)
TailWidths == {1, 8, 15, 25, 40}

CometConstructorDraws ==
    [t : {Centi(49), Centi(97)}, mult : {2},
     offset : {0, 2}, scatter : ScatterDraws]

InitComet ==
    /\ \E w \in TailWidths, len \in 1..MaxTailLength :
          params = [TunedParams EXCEPT !.particleType = "comet",
                                         !.comet.tailWidth = w,
                                         !.comet.tailLength = len]
    /\ curvePath = PathFor(params.curveType)
    /\ \E draws \in [1..params.numParticles -> CometConstructorDraws] :
          particleSystem = recreateCometSystem(params, draws)
    /\ probe = NoProbe
    /\ history = NoHistory
    /\ scene = NoScene

(* animate(): particleSystem.update() on the comet manager *)
CometAnimate ==
    /\ particleSystem.type = "comet"
    /\ \E s \in ScatterDraws :
          particleSystem' =
             [particleSystem EXCEPT !.particles =
                 CometParticleSystem_update(
                    particleSystem.particles,
                    [i \in 1..Len(particleSystem.particles) |-> s])]
    /\ UNCHANGED <<params, curvePath, scene, probe, history>>

(* the onChange of the Tail Width slider: updateCometParams() *)
CometSetTailWidth ==
    /\ particleSystem.type = "comet"
    /\ \E w \in TailWidths \ {params.comet.tailWidth} :
          \E draws \in [1..params.numParticles -> CometConstructorDraws] :
             LET prm == [params EXCEPT !.comet.tailWidth = w]
                 sys == CometParticleSystem_updateCometParams(
                           prm, particleSystem, draws)
                 rebuilt ==
                    \E i \in 1..Len(particleSystem.particles) :
                       NeedsRebuild(
                          numExtraLines(w),
                          Len(particleSystem.particles[i].wideTailMeshes))
             IN  /\ params' = prm
                 /\ particleSystem' = sys
                 /\ curvePath' = IF rebuilt THEN PathFor(prm.curveType)
                                 ELSE curvePath
                 /\ history' = [history EXCEPT !.retuned = ~rebuilt]
    /\ UNCHANGED <<scene, probe>>

(* the onChange of the Tail Length slider: recreateSystem() *)
CometSetTailLength ==
    /\ particleSystem.type = "comet"
    /\ \E len \in (1..MaxTailLength) \ {params.comet.tailLength} :
          \E draws \in [1..params.numParticles -> CometConstructorDraws] :
             LET prm == [params EXCEPT !.comet.tailLength = len]
             IN  /\ params' = prm
                 /\ particleSystem' = recreateCometSystem(prm, draws)
                 /\ curvePath' = PathFor(prm.curveType)
                 /\ history' = [history EXCEPT !.retuned = FALSE]
    /\ UNCHANGED <<scene, probe>>

NextComet == CometAnimate \/ CometSetTailWidth \/ CometSetTailLength

SpecComet == InitComet /\ [][NextComet]_vars

Comets ==
    {particleSystem.particles[i] : i \in 1..Len(particleSystem.particles)}

(* C10 as stated: every comet has exactly max(0, floor(tailWidth * 2))     *)
(* wide tail strands, after construction and after any tailWidth change    *)
(* handled by updateCometParams().                                         *)
C10_StrandCountEqualsWidth ==
    particleSystem.type = "comet" =>
       \A p \in Comets :
          Len(p.wideTailMeshes)
             = Max(0, numExtraLines(params.comet.tailWidth))

(* C10 amended: every comet has floor(w * 2) wide tail strands for the     *)
(* tailWidth w it was built with, which is params.comet.tailWidth as long  *)
(* as updateCometParams() has not changed it in place; after tailWidth     *)
(* changes handled by updateCometParams() the strand count is within 2 of  *)
(* max(0, floor(params.comet.tailWidth * 2)).                              *)
C10_StrandCountWithinThreshold ==
    particleSystem.type = "comet" =>
       \A p \in Comets :
          LET n      == Len(p.wideTailMeshes)
              target == Max(0, numExtraLines(params.comet.tailWidth))
          IN  /\ Abs(target - n) <= 2
              /\ ~history.retuned => n = target
              /\ \A i \in 1..n :
                    n = numExtraLines(p.wideTailMeshes[i].tailWidth)

(* updateCometParams() has taken a new tailWidth without a rebuild and the *)
(* comet keeps a strand count that is not floor(tailWidth * 2)             *)
C10_Witness ==
    /\ particleSystem.type = "comet"
    /\ history.retuned
    /\ \E p \in Comets :
          /\ p.tailWidth = params.comet.tailWidth
          /\ Len(p.wideTailMeshes) # numExtraLines(params.comet.tailWidth)
          /\ Len(p.wideTailMeshes) > 0


-----------------------------------------------------------------------------
(* Claims about the comet's tail geometry, checked under SpecComet.        *)

(* a step that is a tick of the comet system: the two sliders change       *)
(* params, a tick leaves it alone                                          *)
CometTicked ==
    /\ particleSystem.type = "comet"
    /\ params' = params

(* C11: after every Comet.update() tick the primary tail and every wide    *)
(* strand take sample i at the path parameter (currentT - i * segment      *)
(* length) wrapped into [0, 1), with the comet's scatterOffset, and every  *)
(* sample of a wide strand carries one and the same lateral vector, the    *)
(* one of that strand; the primary tail carries none.                      *)
C11_StrandsShareSamples ==
    [][CometTicked =>
        \A n \in 1..Len(particleSystem.particles') :
           LET p   == particleSystem.particles'[n]
               seg == tailSegmentLength(p.speed)
           IN  /\ Len(p.tailPositions) = p.tailLength
               /\ \A k \in 1..p.tailLength :
                     /\ p.tailPositions[k].t
                           = tailSampleT(p, k, seg)
                     /\ p.tailPositions[k].off = p.scatterOffset
                     /\ p.tailPositions[k].strand = NoStrandOffset
               /\ \A s \in 1..Len(p.wideTailMeshes) :
                     LET strand == p.wideTailMeshes[s].positions
                     IN  /\ Len(strand) = p.tailLength
                         /\ \A k \in 1..p.tailLength :
                               /\ strand[k].t = p.tailPositions[k].t
                               /\ strand[k].off = p.tailPositions[k].off
                               /\ strand[k].strand = strand[1].strand
                               /\ strand[k].strand # NoStrandOffset]_vars

(* a comet with a wide strand and a tail of two or more samples has been   *)
(* ticked across the end of the path: its second sample lies before t = 0  *)
(* and is wrapped to the end of the path                                   *)
C11_Witness ==
    /\ particleSystem.type = "comet"
    /\ \E p \in Comets :
          /\ Len(p.wideTailMeshes) >= 1
          /\ p.tailLength >= 2
          /\ p.currentT = 0
          /\ p.tailPositions[2].t > p.tailPositions[1].t
          /\ p.wideTailMeshes[1].positions[2].t = p.tailPositions[2].t

-----------------------------------------------------------------------------
(* Render objects: materials, meshes and the scene.  A mesh is named by    *)
(* the particle that owns it and by its part; a particle is named by the   *)
(* createParticles() call that made it and by its index in that call.      *)

AdditiveBlending == "AdditiveBlending"

NormalBlending == "NormalBlending"

(* THREE.Color values: set(hex) and setHSL(h, s, l); h is a draw in units  *)
(* of 1/TDen, s and l are in hundredths                                    *)
Hex(v) == [hex |-> v]

HSL(h, s, l) == [h |-> h, s |-> s, l |-> l]

(* new THREE.Color() *)
White == Hex("#ffffff")

MeshId(owner, part) == [owner |-> owner, part |-> part]

(* the part of the GlowParticle constructor that builds the material and   *)
(* the line and adds the line to the scene; line widths are in tenths and  *)
(* a width of 0 is replaced by the default 1.0 (options.lineWidth || 1.0)  *)
GlowParticle_mesh(p, options, owner) ==
    p @@ [material |-> [color |-> White,
                        blending |-> NormalBlending,
                        uBoldness |-> options.boldness,
                        linewidth |-> IF options.lineWidth = 0 THEN 10
                                      ELSE options.lineWidth],
          mesh |-> MeshId(owner, <<"mesh", 0>>)]

(* the part of the WeldingSpark constructor that builds the material and   *)
(* the points and adds them to the scene                                   *)
WeldingSpark_mesh(p, owner) ==
    p @@ [material |-> [sparkColor |-> <<10, 6, 1>>,
                        blending |-> AdditiveBlending],
          mesh |-> MeshId(owner, <<"mesh", 0>>)]

(* the part of the Comet constructor that builds the two materials, the    *)
(* head and tail meshes and one line with a clone of the tail material per *)
(* wide strand, and adds them all to the scene                             *)
Comet_mesh(p, options, owner) ==
    [p EXCEPT !.wideTailMeshes =
        [s \in 1..Len(p.wideTailMeshes) |->
            p.wideTailMeshes[s]
               @@ [material |-> [cometColor |-> Hex(options.color),
                                 blending |-> AdditiveBlending],
                   mesh |-> MeshId(owner, <<"wide", s>>)]]]
      @@ [headMaterial |-> [cometColor |-> Hex(options.color),
                            blending |-> AdditiveBlending],
          tailMaterial |-> [cometColor |-> Hex(options.color),
                            blending |-> AdditiveBlending],
          headMesh |-> MeshId(owner, <<"head", 0>>),
          tailMesh |-> MeshId(owner, <<"tail", 0>>)]

(* the meshes a particle's constructor adds to the scene *)
MeshesOf(p) ==
    IF p.kind = "comet"
      THEN {p.headMesh, p.tailMesh}
              \cup {p.wideTailMeshes[s].mesh : s \in 1..Len(p.wideTailMeshes)}
      ELSE {p.mesh}

(* dispose() of a particle: scene.remove() of each of its meshes *)
dispose_keepInScene(p, objects) == objects

dispose(p, objects) == objects \ MeshesOf(p)

RECURSIVE disposeAll(_, _, _)
(* this.particles.forEach(p => p.dispose()) *)
disposeAll(particles, i, objects) ==
    IF i > Len(particles) THEN objects
    ELSE disposeAll(particles, i + 1, dispose(particles[i], objects))

(* ParticleSystem.clear() on the system and scene of w *)
ParticleSystem_clear_keepsList(w) ==
    [w EXCEPT !.scene.objects = disposeAll(w.system.particles, 1, @)]

ParticleSystem_clear(w) ==
    [w EXCEPT !.scene.objects = disposeAll(w.system.particles, 1, @),
              !.system.particles = <<>>]

(* ParticleSystem.create(type) *)
ParticleSystem_create_strict(type) ==
    IF type = "glow" THEN [type |-> "glow", particles |-> <<>>]
    ELSE IF type = "weldingSpark"
      THEN [type |-> "weldingSpark", particles |-> <<>>]
    ELSE IF type = "comet" THEN [type |-> "comet", particles |-> <<>>]
    ELSE NoSystem

ParticleSystem_create(type) ==
    IF type = "glow" THEN [type |-> "glow", particles |-> <<>>]
    ELSE IF type = "weldingSpark"
      THEN [type |-> "weldingSpark", particles |-> <<>>]
    ELSE IF type = "comet" THEN [type |-> "comet", particles |-> <<>>]
    ELSE [type |-> "glow", particles |-> <<>>]

(* one particle of createParticles() of the manager of the given type,     *)
(* read with the params prm; d.ctor holds the constructor's draws          *)
NewParticle(type, prm, path, d, owner) ==
    IF type = "glow"
      THEN GlowParticle_mesh(
              GlowParticle(path,
                           [trailLength |-> prm.glow.trailLength,
                            speedFactor |-> prm.glow.speedFactor,
                            scatterRadius |-> prm.particleScatterRadius],
                           d.ctor),
              [boldness |-> prm.glow.boldness,
               lineWidth |-> prm.glow.lineWidth],
              owner)
    ELSE IF type = "weldingSpark"
      THEN WeldingSpark_mesh(
              WeldingSpark(path,
                           [trailLength |-> prm.weldingSpark.trailLength,
                            speedFactor |-> prm.weldingSpark.speedFactor,
                            scatterRadius |-> prm.particleScatterRadius],
                           d.ctor),
              owner)
    ELSE Comet_mesh(
            Comet(path,
                  [tailLength |-> prm.comet.tailLength,
                   tailWidth |-> prm.comet.tailWidth,
                   speedFactor |-> prm.comet.speedFactor,
                   scatterRadius |-> prm.particleScatterRadius],
                  d.ctor),
            [color |-> prm.comet.cometColor],
            owner)

(* createParticles() of the manager of w.system: params.numParticles       *)
(* particles are pushed and their meshes added to the scene; atCreate      *)
(* records what the scene held when the call began                         *)
createParticles(prm, path, w, draws) ==
    LET batch == w.scene.batches + 1
        made  == [i \in 1..prm.numParticles |->
                     NewParticle(w.system.type, prm, path, draws[i],
                                 <<batch, i>>)]
    IN  [w EXCEPT !.system.particles = @ \o made,
                  !.scene.batches = batch,
                  !.scene.atCreate = w.scene.objects,
                  !.scene.objects =
                     @ \cup UNION {MeshesOf(made[i]) : i \in 1..Len(made)}]

(* ParticleSystem.init() *)
ParticleSystem_init_noClear(prm, path, w, draws) ==
    createParticles(prm, path, w, draws)

ParticleSystem_init(prm, path, w, draws) ==
    createParticles(prm, path, ParticleSystem_clear(w), draws)

(* the enabled palette colours, in the order of the five if-statements *)
activePalette(prm) ==
    LET on == SelectSeq([k \in 1..Len(prm.palette) |-> k],
                        LAMBDA k : prm.paletteEnabled[k])
    IN  [j \in 1..Len(on) |-> prm.palette[on[j]]]

(* Math.floor(Math.random() * n), for the draw r *)
randomIndex(r, n) == (r * n) \div TDen

(* the colour GlowParticleSystem.setParticleColor() sets, for the draw r *)
GlowColor_ignoreTheme(prm, r) ==
    IF prm.colorMode = "single" THEN Hex(prm.singleColorValue)
    ELSE IF prm.colorMode = "palette"
      THEN IF Len(activePalette(prm)) > 0
             THEN Hex(activePalette(prm)[randomIndex(r, Len(activePalette(prm))) + 1])
             ELSE Hex("#ffffff")
    ELSE HSL(r, 70, 60)

GlowColor_wholePalette(prm, r) ==
    IF prm.currentTheme = "light" THEN Hex("#222222")
    ELSE IF prm.colorMode = "single" THEN Hex(prm.singleColorValue)
    ELSE IF prm.colorMode = "palette"
      THEN Hex(prm.palette[randomIndex(r, Len(prm.palette)) + 1])
    ELSE HSL(r, 70, 60)

GlowColor(prm, r) ==
    IF prm.currentTheme = "light" THEN Hex("#222222")
    ELSE IF prm.colorMode = "single" THEN Hex(prm.singleColorValue)
    ELSE IF prm.colorMode = "palette"
      THEN IF Len(activePalette(prm)) > 0
             THEN Hex(activePalette(prm)[randomIndex(r, Len(activePalette(prm))) + 1])
             ELSE Hex("#ffffff")
    ELSE HSL(r, 70, 60)

(* GlowParticleSystem.setParticleColor(particle) *)
setParticleColor_restart(prm, particle, r) ==
    [particle EXCEPT !.material.color = GlowColor(prm, r),
                     !.currentT = 0, !.currentTBits = DoubleZero]

setParticleColor(prm, particle, r) ==
    [particle EXCEPT !.material.color = GlowColor(prm, r)]

(* the colour CometParticleSystem.setCometColor() computes, for the draw r *)
CometColor(prm, r) ==
    IF prm.currentTheme = "light" THEN Hex("#0066cc")
    ELSE IF prm.comet.colorMode = "rainbow" THEN HSL(r, 80, 60)
    ELSE IF prm.comet.colorMode = "single" THEN Hex(prm.comet.cometColor)
    ELSE IF prm.comet.colorMode = "palette"
      THEN IF Len(activePalette(prm)) > 0
             THEN Hex(activePalette(prm)[randomIndex(r, Len(activePalette(prm))) + 1])
             ELSE Hex(prm.comet.cometColor)
    ELSE Hex(prm.comet.cometColor)

(* CometParticleSystem.setCometColor(comet): head and tail get the colour *)
setCometColor(prm, comet, r) ==
    [comet EXCEPT !.headMaterial.cometColor = CometColor(prm, r),
                  !.tailMaterial.cometColor = CometColor(prm, r)]

(* updateColors() of the manager of system; colors[i] is the draw that the *)
(* i-th particle's colour uses                                             *)
updateColors(prm, system, colors) ==
    IF system.type = "glow"
      THEN [system EXCEPT !.particles =
               [i \in 1..Len(system.particles) |->
                   setParticleColor(prm, system.particles[i], colors[i])]]
    ELSE IF system.type = "comet"
      THEN [system EXCEPT !.particles =
               [i \in 1..Len(system.particles) |->
                   setCometColor(prm, system.particles[i], colors[i])]]
    ELSE system

(* the particles on which updateColors() of the manager sets a colour *)
Recolored(system) ==
    IF system.type \in {"glow", "comet"} THEN 1..Len(system.particles)
    ELSE {}

BlendingFor(theme) ==
    IF theme = "dark" THEN AdditiveBlending ELSE NormalBlending

(* GlowParticleSystem.updateBoldness(), read with the params prm *)
updateBoldness(prm, system) ==
    [system EXCEPT !.particles =
        [i \in 1..Len(system.particles) |->
            [system.particles[i] EXCEPT
                !.material.uBoldness = prm.glow.boldness]]]

(* GlowParticleSystem.updateLineWidth(), read with the params prm *)
updateLineWidth(prm, system) ==
    [system EXCEPT !.particles =
        [i \in 1..Len(system.particles) |->
            [system.particles[i] EXCEPT
                !.material.linewidth = prm.glow.lineWidth]]]

(* GlowParticleSystem.applyTheme(theme) *)
GlowParticleSystem_applyTheme(prm, theme, system, colors) ==
    LET blended == [system EXCEPT !.particles =
                       [i \in 1..Len(system.particles) |->
                           [system.particles[i] EXCEPT
                               !.material.blending = BlendingFor(theme)]]]
    IN  updateLineWidth(prm,
           updateBoldness(prm, updateColors(prm, blended, colors)))

(* WeldingSparkParticleSystem.applyTheme(theme) *)
WeldingSparkParticleSystem_applyTheme(prm, theme, system, colors) ==
    [system EXCEPT !.particles =
        [i \in 1..Len(system.particles) |->
            [system.particles[i] EXCEPT
                !.material.blending = AdditiveBlending]]]

(* CometParticleSystem.applyTheme(theme) *)
CometParticleSystem_applyTheme(prm, theme, system, colors) ==
    updateColors(
       prm,
       [system EXCEPT !.particles =
           [i \in 1..Len(system.particles) |->
               [system.particles[i] EXCEPT
                   !.headMaterial.blending = BlendingFor(theme),
                   !.tailMaterial.blending = BlendingFor(theme)]]],
       colors)

(* applyThemeSettings(): particleSystem.applyTheme(params.currentTheme) *)
applyThemeSettings(prm, system, colors) ==
    IF system.type = "glow"
      THEN GlowParticleSystem_applyTheme(prm, prm.currentTheme, system, colors)
    ELSE IF system.type = "weldingSpark"
      THEN WeldingSparkParticleSystem_applyTheme(prm, prm.currentTheme,
                                                 system, colors)
    ELSE IF system.type = "comet"
      THEN CometParticleSystem_applyTheme(prm, prm.currentTheme, system, colors)
    ELSE system

(* recreateSystem(), read with the params prm: the curve is rebuilt, the   *)
(* old system cleared, a new one created, initialised and themed;          *)
(* draws[i].ctor and draws[i].color are the draws of the i-th particle     *)
recreateSystem_noClear(prm, w, draws) ==
    LET made  == ParticleSystem_init(
                    prm, PathFor(prm.curveType),
                    [w EXCEPT !.system =
                        ParticleSystem_create(prm.particleType)],
                    draws)
    IN  [made EXCEPT !.system =
            applyThemeSettings(prm, made.system,
                               [i \in DOMAIN draws |-> draws[i].color])]

recreateSystem(prm, w, draws) ==
    LET clean == IF w.system.type # "none" THEN ParticleSystem_clear(w)
                 ELSE w
        made  == ParticleSystem_init(
                    prm, PathFor(prm.curveType),
                    [clean EXCEPT !.system =
                        ParticleSystem_create(prm.particleType)],
                    draws)
    IN  [made EXCEPT !.system =
            applyThemeSettings(prm, made.system,
                               [i \in DOMAIN draws |-> draws[i].color])]

(* CometParticleSystem.updateCometParams() on the system and scene of w,   *)
(* read with the params prm                                                *)
updateCometParams(prm, w, draws) ==
    IF \E i \in 1..Len(w.system.particles) :
          NeedsRebuild(numExtraLines(prm.comet.tailWidth),
                       Len(w.system.particles[i].wideTailMeshes))
      THEN recreateSystem(prm, w, draws)
      ELSE [w EXCEPT !.system.particles =
               [i \in 1..Len(w.system.particles) |->
                   updateCometParams_keep(prm, w.system.particles[i])]]

-----------------------------------------------------------------------------
(* SpecScene: the program after start-up, with the Particle Type, Count    *)
(* and Tail Width controls moved, init() called on the current system and  *)
(* animate() ticking, following the meshes the scene holds.                *)

MaxParticles == 2

MaxBatches == 4

MaxSceneTicks == 2

(* the scene at start-up, before the first recreateSystem() *)
EmptyScene == [followed |-> TRUE, objects |-> {}, batches |-> 0, atCreate |-> {}]

(* the values the Particle Type control offers *)
ParticleTypes == {"glow", "weldingSpark", "comet"}

(* arguments tried on ParticleSystem.create() *)
CreateArguments == ParticleTypes \cup {"plasma", ""}

ColorDraws == {0, TDen \div 2, TDen - 1}

(* constructor draws of one particle of the manager of the given type *)
SceneConstructorDraws(type) ==
    IF type = "weldingSpark"
      THEN [t : {Centi(97)}, mult : {2}, offset : {2},
            scatter : SparkScatterAtStart, burst : {NoBurst}]
      ELSE [t : {Centi(97)}, mult : {2}, offset : {2},
            scatter : {<<0, 2, 3>>}]

(* the draws of one createParticles() and colouring: every particle of    *)
(* the call gets the same draws                                           *)
SceneDraws(prm) ==
    {[i \in 1..prm.numParticles |-> [ctor |-> d, color |-> c]] :
        d \in SceneConstructorDraws(ParticleSystem_create(prm.particleType).type),
        c \in {0, TDen \div 2}}

(* ticks counts the calls of animate(), inits the calls of init() made    *)
(* on the current system from outside recreateSystem()                    *)
SceneHistory == [ticks |-> 0, inits |-> 0]

World == [system |-> particleSystem, scene |-> scene]

(* start-up: recreateSystem() and then applyThemeSettings() *)
InitScene ==
    /\ params = TunedParams
    /\ curvePath = PathFor(params.curveType)
    /\ \E draws \in SceneDraws(params) :
          LET w == recreateSystem(params,
                                  [system |-> NoSystem, scene |-> EmptyScene],
                                  draws)
          IN  /\ \E c \in {0, TDen \div 2} :
                    particleSystem =
                       applyThemeSettings(params, w.system,
                                          [i \in DOMAIN draws |-> c])
              /\ scene = w.scene
    /\ probe = [type |-> "", called |-> FALSE, result |-> NoSystem]
    /\ history = SceneHistory

(* the onChange of the Particle Type control: recreateSystem() *)
SceneSetParticleType ==
    /\ scene.batches < MaxBatches
    /\ \E type \in ParticleTypes \ {params.particleType} :
          LET prm == [params EXCEPT !.particleType = type]
          IN  \E draws \in SceneDraws(prm) :
                 LET w == recreateSystem(prm, World, draws)
                 IN  /\ params' = prm
                     /\ curvePath' = PathFor(prm.curveType)
                     /\ particleSystem' = w.system
                     /\ scene' = w.scene
    /\ UNCHANGED <<probe, history>>

(* the onChange of the Count control: recreateSystem() *)
SceneSetNumParticles ==
    /\ scene.batches < MaxBatches
    /\ \E n \in (1..MaxParticles) \ {params.numParticles} :
          LET prm == [params EXCEPT !.numParticles = n]
          IN  \E draws \in SceneDraws(prm) :
                 LET w == recreateSystem(prm, World, draws)
                 IN  /\ params' = prm
                     /\ curvePath' = PathFor(prm.curveType)
                     /\ particleSystem' = w.system
                     /\ scene' = w.scene
    /\ UNCHANGED <<probe, history>>

(* the onChange of the Curve Type control: recreateSystem() *)
SceneSetCurveType ==
    /\ scene.batches < MaxBatches
    /\ \E curveType \in {"viviani", "lorenz"} \ {params.curveType} :
          LET prm == [params EXCEPT !.curveType = curveType]
          IN  \E draws \in SceneDraws(prm) :
                 LET w == recreateSystem(prm, World, draws)
                 IN  /\ params' = prm
                     /\ curvePath' = PathFor(prm.curveType)
                     /\ particleSystem' = w.system
                     /\ scene' = w.scene
    /\ UNCHANGED <<probe, history>>

(* the onChange of the Tail Width control: updateCometParams() *)
SceneSetTailWidth ==
    /\ scene.batches < MaxBatches
    /\ particleSystem.type = "comet"
    /\ \E width \in {8, 15, 25} \ {params.comet.tailWidth} :
          LET prm == [params EXCEPT !.comet.tailWidth = width]
          IN  \E draws \in SceneDraws(prm) :
                 LET w == updateCometParams(prm, World, draws)
                 IN  /\ params' = prm
                     /\ curvePath' = PathFor(prm.curveType)
                     /\ particleSystem' = w.system
                     /\ scene' = w.scene
    /\ UNCHANGED <<probe, history>>

(* particleSystem.init() called on the current system *)
SceneCallInit ==
    /\ scene.batches < MaxBatches
    /\ \E draws \in SceneDraws(params) :
          LET w == ParticleSystem_init(params, curvePath, World, draws)
          IN  /\ particleSystem' = w.system
              /\ scene' = w.scene
    /\ history' = [history EXCEPT !.inits = @ + 1]
    /\ UNCHANGED <<params, curvePath, probe>>

(* ParticleSystem.create(type) called on its own *)
SceneCallCreate ==
    /\ \E type \in CreateArguments :
          probe' = [type |-> type, called |-> TRUE,
                    result |-> ParticleSystem_create(type)]
    /\ UNCHANGED <<params, curvePath, particleSystem, scene, history>>

(* the draws of one tick of the burst manager that emits nothing *)
QuietSparkTick(p) ==
    [scatter |-> <<3, 1, 0>>, emit |-> 0,
     burst |-> NoBurst, decs |-> [k \in 1..Len(p.positions) |-> SlowDecay]]

(* animate(): particleSystem.update() *)
SceneAnimate ==
    /\ history.ticks < MaxSceneTicks
    /\ LET ps == particleSystem.particles
           s  == <<3, 1, 0>>
       IN  particleSystem' =
              [particleSystem EXCEPT !.particles =
                  IF particleSystem.type = "glow"
                    THEN GlowParticleSystem_update(ps, [i \in 1..Len(ps) |-> s])
                  ELSE IF particleSystem.type = "weldingSpark"
                    THEN WeldingSparkParticleSystem_update(
                            ps, [i \in 1..Len(ps) |-> QuietSparkTick(ps[i])])
                  ELSE CometParticleSystem_update(ps, [i \in 1..Len(ps) |-> s])]
    /\ history' = [history EXCEPT !.ticks = @ + 1]
    /\ UNCHANGED <<params, curvePath, scene, probe>>

NextScene ==
    \/ SceneSetParticleType
    \/ SceneSetNumParticles
    \/ SceneSetCurveType
    \/ SceneSetTailWidth
    \/ SceneCallInit
    \/ SceneCallCreate
    \/ SceneAnimate

SpecScene == InitScene /\ [][NextScene]_vars

(* C12: ParticleSystem.create(type) returns the trail manager for 'glow',  *)
(* the burst manager for 'weldingSpark' and the comet manager for 'comet', *)
(* and for any other value it still returns a manager, the trail one.      *)
C12_CreateFallsBackToGlow ==
    probe.called =>
       /\ probe.result.type \in ParticleTypes
       /\ probe.result.particles = <<>>
       /\ probe.type \in ParticleTypes => probe.result.type = probe.type
       /\ probe.type \notin ParticleTypes => probe.result.type = "glow"

C12_Witness ==
    /\ probe.called
    /\ probe.type = "plasma"
    /\ probe.result.type = "glow"

(* the createParticles() call and the index that made the particle p *)
OwnerOf(p) == IF p.kind = "comet" THEN p.headMesh.owner ELSE p.mesh.owner

(* the meshes of all the particles of a system *)
SystemMeshes(system) ==
    UNION {MeshesOf(system.particles[i]) : i \in 1..Len(system.particles)}

(* C13: after init() the system owns exactly params.numParticles           *)
(* particles, all made in that call; the meshes of every particle it owned *)
(* before are out of the scene, which holds the new particles' meshes only *)
C13_InitReplacesTheParticles ==
    [][history'.inits = history.inits + 1 =>
          /\ Len(particleSystem'.particles) = params'.numParticles
          /\ scene'.batches = scene.batches + 1
          /\ \A i \in 1..Len(particleSystem'.particles) :
                OwnerOf(particleSystem'.particles[i]) = <<scene'.batches, i>>
          /\ SystemMeshes(particleSystem) \cap scene'.objects = {}
          /\ scene'.objects = SystemMeshes(particleSystem')]_vars

C13_Witness ==
    /\ history.inits = 2
    /\ scene.batches = 4
    /\ particleSystem.type = "comet"
    /\ Len(particleSystem.particles) = params.numParticles
    /\ \A i \in 1..Len(particleSystem.particles) :
          OwnerOf(particleSystem.particles[i]) = <<4, i>>
    /\ scene.objects = SystemMeshes(particleSystem)

(* C14: recreateSystem() removes every mesh of the old system from the     *)
(* scene before the first particle of the new one is made, and the scene   *)
(* always holds the meshes of the current system's particles and no others *)
C14_SceneHoldsOneLiveSystem ==
    /\ scene.atCreate = {}
    /\ scene.objects = SystemMeshes(particleSystem)
    /\ \A m \in scene.objects : m.owner[1] = scene.batches

C14_Witness ==
    /\ scene.batches >= 3
    /\ particleSystem.type = "comet"
    /\ params.curveType = "viviani"
    /\ params.numParticles = 2
    /\ history.inits = 0
    /\ Cardinality(scene.objects) >= 6

-----------------------------------------------------------------------------
(* SpecColor: a system of each of the three types after start-up, with the *)
(* Theme control and the colour controls moved, updateColors() called on   *)
(* the current system and animate() ticking.  history.op names the last    *)
(* call made on the system and history.recolored the particles on which    *)
(* that call set a colour.                                                 *)

MaxColorTicks == 2

ColorModes == {"rainbow", "single", "palette"}

(* values tried on the Single Color and Comet Color pickers *)
SingleColors == {"#ffffff", "#ff0000"}

CometColors == {"#80ffff", "#00ff00"}

(* the Palette k pickers that are moved, and the value tried on each one   *)
(* besides its default                                                     *)
PickersMoved == {3}

PickedColors == <<"#ff8800", "#ff00ff", "#33cc33", "#00ffff", "#888888">>

(* constructor draws of one particle: it wraps on its first tick *)
ColorConstructorDraws(type) ==
    IF type = "weldingSpark"
      THEN [t : {TDen - 1}, mult : {2}, offset : {2},
            scatter : SparkScatterAtStart, burst : {NoBurst}]
      ELSE [t : {TDen - 1}, mult : {2}, offset : {2},
            scatter : {<<0, 2, 3>>}]

ColorsFor(system) == [1..Len(system.particles) -> ColorDraws]

(* start-up with params.particleType set to each of the three types:       *)
(* recreateSystem() and then applyThemeSettings()                          *)
InitColor ==
    /\ \E type \in ParticleTypes :
          params = [TunedParams EXCEPT !.particleType = type]
    /\ curvePath = PathFor(params.curveType)
    /\ \E draws \in [1..params.numParticles ->
                        [ctor : ColorConstructorDraws(params.particleType),
                         color : ColorDraws]] :
          LET w == recreateSystem(params,
                                  [system |-> NoSystem, scene |-> EmptyScene],
                                  draws)
          IN  /\ \E colors \in ColorsFor(w.system) :
                    particleSystem = applyThemeSettings(params, w.system, colors)
              /\ scene = w.scene
              /\ history = [ticks |-> 0, op |-> "applyThemeSettings",
                            recolored |-> Recolored(w.system)]
    /\ probe = NoProbe

(* the onChange of the Theme control: applyThemeSettings() *)
ColorSetTheme ==
    /\ \E theme \in {"dark", "light"} \ {params.currentTheme} :
          params' = [params EXCEPT !.currentTheme = theme]
    /\ \E colors \in ColorsFor(particleSystem) :
          particleSystem' = applyThemeSettings(params', particleSystem, colors)
    /\ history' = [history EXCEPT !.op = "applyThemeSettings",
                                  !.recolored = Recolored(particleSystem)]
    /\ UNCHANGED <<curvePath, scene, probe>>

(* the body shared by the colour controls: updateColors() when the test    *)
(* of the handler passes, nothing otherwise                                *)
ColorControlMoved(passes) ==
    /\ IF passes
         THEN /\ \E colors \in ColorsFor(particleSystem) :
                    particleSystem' = updateColors(params', particleSystem, colors)
              /\ history' = [history EXCEPT !.op = "updateColors",
                                            !.recolored = Recolored(particleSystem)]
         ELSE /\ particleSystem' = particleSystem
              /\ history' = [history EXCEPT !.op = "none", !.recolored = {}]
    /\ UNCHANGED <<curvePath, scene, probe>>

(* the onChange of Mode in the Color folder *)
ColorSetColorMode ==
    /\ \E mode \in ColorModes \ {params.colorMode} :
          params' = [params EXCEPT !.colorMode = mode]
    /\ ColorControlMoved(particleSystem.type = "glow")

(* the onChange of Single Color in the Color folder *)
ColorSetSingleColor ==
    /\ \E color \in SingleColors \ {params.singleColorValue} :
          params' = [params EXCEPT !.singleColorValue = color]
    /\ ColorControlMoved(particleSystem.type = "glow")

(* the onChange of Enabled k in the Color folder *)
ColorTogglePalette ==
    /\ \E k \in 1..Len(params.palette) :
          params' = [params EXCEPT !.paletteEnabled[k] = ~@]
    /\ ColorControlMoved(particleSystem.type = "glow")

(* the onChange of Palette k in the Color folder, for the pickers moved    *)
(* and the values tried on them                                            *)
ColorSetPaletteColor ==
    /\ \E k \in PickersMoved :
          \E color \in {DefaultParams.palette[k], PickedColors[k]}
                          \ {params.palette[k]} :
             params' = [params EXCEPT !.palette[k] = color]
    /\ ColorControlMoved(particleSystem.type = "glow")

(* the onChange of Color Mode in the comet folder *)
ColorSetCometColorMode ==
    /\ \E mode \in ColorModes \ {params.comet.colorMode} :
          params' = [params EXCEPT !.comet.colorMode = mode]
    /\ ColorControlMoved(particleSystem.type = "comet")

(* the onChange of Comet Color in the comet folder *)
ColorSetCometColor ==
    /\ \E color \in CometColors \ {params.comet.cometColor} :
          params' = [params EXCEPT !.comet.cometColor = color]
    /\ ColorControlMoved(particleSystem.type = "comet"
                            /\ params'.comet.colorMode = "single")

(* particleSystem.updateColors() called on the current system *)
ColorCallUpdateColors ==
    /\ \E colors \in ColorsFor(particleSystem) :
          particleSystem' = updateColors(params, particleSystem, colors)
    /\ history' = [history EXCEPT !.op = "updateColors",
                                  !.recolored = Recolored(particleSystem)]
    /\ UNCHANGED <<params, curvePath, scene, probe>>

(* animate(): particleSystem.update() *)
ColorAnimate ==
    /\ history.ticks < MaxColorTicks
    /\ LET ps == particleSystem.particles
           s  == <<3, 1, 0>>
       IN  particleSystem' =
              [particleSystem EXCEPT !.particles =
                  IF particleSystem.type = "glow"
                    THEN GlowParticleSystem_update(ps, [i \in 1..Len(ps) |-> s])
                  ELSE IF particleSystem.type = "weldingSpark"
                    THEN WeldingSparkParticleSystem_update(
                            ps, [i \in 1..Len(ps) |-> QuietSparkTick(ps[i])])
                  ELSE CometParticleSystem_update(ps, [i \in 1..Len(ps) |-> s])]
    /\ history' = [history EXCEPT !.ticks = @ + 1, !.op = "animate",
                                  !.recolored = {}]
    /\ UNCHANGED <<params, curvePath, scene, probe>>

NextColor ==
    \/ ColorSetTheme
    \/ ColorSetColorMode
    \/ ColorSetSingleColor
    \/ ColorTogglePalette
    \/ ColorSetPaletteColor
    \/ ColorSetCometColorMode
    \/ ColorSetCometColor
    \/ ColorCallUpdateColors
    \/ ColorAnimate

SpecColor == InitColor /\ [][NextColor]_vars

(* the particle q is the particle p with, at most, other colour values *)
SameButColor(p, q) ==
    IF p.kind = "glow"
      THEN [q EXCEPT !.material.color = p.material.color] = p
    ELSE IF p.kind = "comet"
      THEN [q EXCEPT !.headMaterial.cometColor = p.headMaterial.cometColor,
                     !.tailMaterial.cometColor = p.tailMaterial.cometColor] = p
    ELSE q = p

(* C15: updateColors() on any of the three managers changes colour values  *)
(* only: every particle keeps its currentT, speed, speed multiplier,       *)
(* scatterOffset, lifecycleOffset, reset flag, trail or tail buffers and   *)
(* spark pool, and the system keeps the same particles                     *)
C15_UpdateColorsKeepsMotion ==
    [][history'.op = "updateColors" =>
          /\ particleSystem'.type = particleSystem.type
          /\ Len(particleSystem'.particles) = Len(particleSystem.particles)
          /\ \A i \in 1..Len(particleSystem.particles) :
                SameButColor(particleSystem.particles[i],
                             particleSystem'.particles[i])]_vars

C15_Witness ==
    /\ history.op = "updateColors"
    /\ history.ticks = 2
    /\ particleSystem.type = "glow"
    /\ particleSystem.particles[1].currentT > 0
    /\ particleSystem.particles[1].justReset
    /\ particleSystem.particles[1].material.color = HSL(TDen \div 2, 70, 60)

(* the blending modes of all the materials of the particle p *)
Blendings(p) ==
    IF p.kind = "comet"
      THEN {p.headMaterial.blending, p.tailMaterial.blending}
              \cup {p.wideTailMeshes[s].material.blending :
                       s \in 1..Len(p.wideTailMeshes)}
      ELSE {p.material.blending}

(* C16: applyTheme('dark') sets additive and applyTheme('light') normal    *)
(* compositing on every material of every particle of the system, for each *)
(* of the three variants, the wide tail strands of a comet included        *)
C16_ThemeSetsEveryBlending ==
    [][history'.op = "applyThemeSettings" =>
          \A i \in 1..Len(particleSystem'.particles) :
             Blendings(particleSystem'.particles[i])
                = {BlendingFor(params'.currentTheme)}]_vars

(* the colour values setParticleColor() / setCometColor() set on p *)
AssignedColors(p) ==
    IF p.kind = "comet"
      THEN {p.headMaterial.cometColor, p.tailMaterial.cometColor}
      ELSE {p.material.color}

(* the fixed colour of the light theme for the manager of the given type *)
LightColor(type) == IF type = "comet" THEN Hex("#0066cc") ELSE Hex("#222222")

(* C17: under the light theme every colour set by applyTheme() or          *)
(* updateColors() on a trail particle or a comet is the one fixed colour   *)
(* of its variant, whatever the colour mode, single colour and palette are *)
C17_LightThemeFixesTheColor ==
    [][/\ history'.op \in {"applyThemeSettings", "updateColors"}
       /\ params'.currentTheme = "light"
       => \A i \in history'.recolored :
             AssignedColors(particleSystem'.particles[i])
                = {LightColor(particleSystem'.type)}]_vars

C17_Witness ==
    /\ history.op = "updateColors"
    /\ history.recolored = {1}
    /\ params.currentTheme = "light"
    /\ params.colorMode = "rainbow"
    /\ params.singleColorValue = "#ff0000"
    /\ params.paletteEnabled = <<TRUE, FALSE, TRUE, FALSE, FALSE>>
    /\ particleSystem.type = "glow"
    /\ particleSystem.particles[1].material.color = Hex("#222222")

(* the palette colours of prm whose enabled flag is k *)
PaletteColors(prm, k) ==
    {Hex(prm.palette[j]) : j \in {j \in 1..Len(prm.palette) : prm.paletteEnabled[j] = k}}

(* the colour mode that the manager of the given type reads *)
ModeOf(prm, type) ==
    IF type = "comet" THEN prm.comet.colorMode ELSE prm.colorMode

(* C18: a colour set in palette mode (dark theme) is never a palette       *)
(* colour whose enabled flag is false when it is set, and is one of the    *)
(* enabled colours whenever there is one: with only colours 1 and 3        *)
(* enabled it is colour 1 or colour 3, never 2, 4 or 5                     *)
C18_PaletteModePicksEnabledColors ==
    [][/\ history'.op \in {"applyThemeSettings", "updateColors"}
       /\ params'.currentTheme = "dark"
       /\ ModeOf(params', particleSystem'.type) = "palette"
       => \A i \in history'.recolored :
             LET set == AssignedColors(particleSystem'.particles[i])
             IN  /\ set \cap PaletteColors(params', FALSE) = {}
                 /\ PaletteColors(params', TRUE) # {}
                       => set \subseteq PaletteColors(params', TRUE)
                 /\ params'.paletteEnabled = <<TRUE, FALSE, TRUE, FALSE, FALSE>>
                       => set \in {{Hex(params'.palette[1])},
                                   {Hex(params'.palette[3])}}]_vars

C18_Witness ==
    /\ history.op = "updateColors"
    /\ history.recolored = {1}
    /\ params.currentTheme = "dark"
    /\ params.colorMode = "palette"
    /\ params.paletteEnabled = <<TRUE, FALSE, TRUE, FALSE, FALSE>>
    /\ particleSystem.type = "glow"
    /\ particleSystem.particles[1].material.color = Hex(params.palette[3])

(* the colours the current strategy of the manager of system can set *)
StrategyColors(prm, system) ==
    IF system.type = "comet" THEN {CometColor(prm, r) : r \in ColorDraws}
    ELSE {GlowColor(prm, r) : r \in ColorDraws}

(* C19: in every tick in which a trail particle or comet wraps (currentT   *)
(* crosses 1 and resets to 0) it is assigned a colour by the current       *)
(* strategy, as it is when it is created                                   *)
C19_ColorAssignedOnEveryWrap ==
    [][/\ history'.op = "animate"
       /\ particleSystem'.type \in {"glow", "comet"}
       => \A i \in 1..Len(particleSystem'.particles) :
             particleSystem'.particles[i].currentT = 0
                => /\ i \in history'.recolored
                   /\ AssignedColors(particleSystem'.particles[i])
                         \subseteq StrategyColors(params', particleSystem')]_vars

(* a wrap tick leaves the colour of the particle as it was *)
WrapKeepsTheColor ==
    [][/\ history'.op = "animate"
       /\ particleSystem'.type \in {"glow", "comet"}
       => \A i \in 1..Len(particleSystem'.particles) :
             AssignedColors(particleSystem'.particles[i])
                = AssignedColors(particleSystem.particles[i])]_vars

-----------------------------------------------------------------------------
(* SpecTrail: a trail system with the Trail Length control at 10 after     *)
(* recreateSystem(), ticked by animate().                                  *)

ScenarioTrailLength == 10

InitTrail ==
    /\ \E ct \in {"lorenz", "viviani"}, radius \in {5, 11} :
          params = [TunedParams EXCEPT !.particleType = "glow",
                                         !.curveType = ct,
                                         !.particleScatterRadius = radius,
                                         !.glow.trailLength = ScenarioTrailLength]
    /\ curvePath = PathFor(params.curveType)
    /\ \E draws \in [1..params.numParticles -> GlowConstructorDraws] :
          particleSystem =
             [type |-> "glow",
              particles |-> GlowParticleSystem_createParticles(curvePath, draws)]
    /\ probe = NoProbe
    /\ history = NoHistory
    /\ scene = NoScene

NextTrail == GlowAnimate

SpecTrail == InitTrail /\ [][NextTrail]_vars

(* the squared length of an offset, in units of 1/ScatterDen^2 *)
SquaredLength(off) == off[1] * off[1] + off[2] * off[2] + off[3] * off[3]

(* the sample is within Euclidean distance radius (in units of 1/RadiusDen)*)
(* of the path's point at t = 0                                            *)
WithinRadiusOfStart(sample, radius) ==
    /\ sample.t = 0
    /\ SquaredLength(sample.off) * RadiusDen * RadiusDen
          <= radius * radius * ScatterDen * ScatterDen

(* C20: with trailLength = 10, after the tick in which currentT crosses 1  *)
(* each of the ten trail samples is within Euclidean distance              *)
(* scatterRadius of the path's point at t = 0                              *)
C20_TrailWithinRadiusAfterWrap ==
    [][\A i \in 1..Len(particleSystem'.particles) :
          LET p == particleSystem'.particles[i]
          IN  (p.currentT = 0 /\ particleSystem.particles[i].currentT # 0)
                 => /\ Len(p.trailPositions) = ScenarioTrailLength
                    /\ \A k \in 1..ScenarioTrailLength :
                          WithinRadiusOfStart(p.trailPositions[k],
                                              params'.particleScatterRadius)]_vars

(* what does hold after a wrap tick: every sample is the start point plus  *)
(* the new scatterOffset, each component of which is within scatterRadius  *)
TrailWithinCubeAfterWrap ==
    [][\A i \in 1..Len(particleSystem'.particles) :
          LET p == particleSystem'.particles[i]
          IN  (p.currentT = 0 /\ particleSystem.particles[i].currentT # 0)
                 => /\ Len(p.trailPositions) = ScenarioTrailLength
                    /\ \A k \in 1..ScenarioTrailLength :
                          /\ p.trailPositions[k] = PointAt(0, p.scatterOffset)
                          /\ \A c \in 1..3 :
                                Abs(p.scatterOffset[c]) * RadiusDen
                                   <= params'.particleScatterRadius * ScatterDen]_vars

-----------------------------------------------------------------------------
(* SpecMotion: a system of each of the three types holding several         *)
(* particles after recreateSystem(), ticked by animate(), with the Speed   *)
(* Factor control of its folder moved between ticks.  The forEach of       *)
(* update() is followed particle by particle; history.draws holds the      *)
(* draws of the last tick.                                                 *)

MaxMotionTicks == 3

MotionParticles == MaxParticles

(* positions of the Speed Factor sliders: 0.0035 and 0.007 *)
SpeedFactors == {35, 70}

(* the callback of the forEach of update() of the manager of the given     *)
(* type, applied to the particle at index i of the array                   *)
updateParticleAt_resetsNext(type, particles, i, draws) ==
    [particles EXCEPT
        ![i] = IF type = "glow"
                 THEN GlowParticleSystem_updateOne(@, draws[i])
               ELSE IF type = "weldingSpark"
                 THEN WeldingSparkParticleSystem_updateOne(@, draws[i])
               ELSE CometParticleSystem_updateOne(@, draws[i]),
        ![(i % Len(particles)) + 1] = [@ EXCEPT !.currentT = 0,
                                                 !.currentTBits = DoubleZero]]

updateParticleAt(type, particles, i, draws) ==
    [particles EXCEPT
        ![i] = IF type = "glow"
                 THEN GlowParticleSystem_updateOne(@, draws[i])
               ELSE IF type = "weldingSpark"
                 THEN WeldingSparkParticleSystem_updateOne(@, draws[i])
               ELSE CometParticleSystem_updateOne(@, draws[i])]

RECURSIVE updateInOrder(_, _, _, _)
(* this.particles.forEach(...) of update(), visiting the indices in the    *)
(* given order                                                             *)
updateInOrder(type, particles, order, draws) ==
    IF order = <<>> THEN particles
    ELSE updateInOrder(type,
                       updateParticleAt(type, particles, Head(order), draws),
                       Tail(order), draws)

(* the order in which forEach visits an array of n elements *)
forEachOrder(n) == [i \in 1..n |-> i]

(* a start two steps of 0.0035 short of 1 (0.993): in exact arithmetic the *)
(* second tick of the lowest multiplier at the speed factor 0.007 reaches  *)
(* 1; the double it reaches is 0.9999999999999999                          *)
TwoStepsShortOfOne == TDen - 2 * (70 * (MultDen \div 2))

(* constructor draws of one particle, at both ends of the ranges: the      *)
(* lowest multiplier with the lowest offset, started two steps short of 1, *)
(* and the highest multiplier with the highest offset, started at 0.98     *)
MotionConstructorDraws(type) ==
    {[c EXCEPT !.mult = mt[1], !.offset = mt[1], !.t = mt[2]] :
        mt \in {<<0, TwoStepsShortOfOne>>, <<RandDen - 1, Centi(98)>>},
        c \in IF type = "weldingSpark"
                THEN [t : {Centi(98)}, mult : {0}, offset : {0},
                      scatter : SparkScatterAtStart, burst : {NoBurst}]
                ELSE [t : {Centi(98)}, mult : {0}, offset : {0},
                      scatter : {<<0, 2, 3>>}]}

(* the draws of a tick of the particle p in which nothing is emitted, with *)
(* the first of the two scatter draws                                      *)
MotionQuietDraws(type, p) ==
    IF type = "weldingSpark" THEN QuietSparkTick(p)
    ELSE <<3, 1, 0>>

(* the particle of a burst system that may emit in the given tick: the n   *)
(* particles take turns                                                    *)
EmitterOf(tick, n) == (tick % n) + 1

(* the draws of one tick of one particle: a burst particle emits or not,   *)
(* a trail particle or comet draws a scatter offset when it wraps          *)
MotionTickDraws(type, p) ==
    IF type = "weldingSpark"
      THEN {QuietSparkTick(p),
            [QuietSparkTick(p) EXCEPT
                !.emit = 3 * (TDen \div 4),
                !.burst = CHOOSE b \in BurstDraws : b # NoBurst]}
    ELSE IF reachesOne(p, IF type = "glow" THEN params.glow.speedFactor
                          ELSE params.comet.speedFactor)
      THEN ScatterDraws
    ELSE {MotionQuietDraws(type, p)}

InitMotion ==
    /\ \E type \in ParticleTypes, randomOffset \in {TDen \div 2, TDen} :
          params = [TunedParams EXCEPT !.particleType = type,
                                         !.numParticles = MotionParticles,
                                         !.lifecycle.randomOffset = randomOffset]
    /\ curvePath = PathFor(params.curveType)
    /\ \E draws \in [1..params.numParticles ->
                        MotionConstructorDraws(params.particleType)] :
          particleSystem =
             [type |-> params.particleType,
              particles |->
                 IF params.particleType = "glow"
                   THEN GlowParticleSystem_createParticles(curvePath, draws)
                 ELSE IF params.particleType = "weldingSpark"
                   THEN WeldingSparkParticleSystem_createParticles(curvePath,
                                                                   draws)
                 ELSE CometParticleSystem_createParticles(params, curvePath,
                                                          draws)]
    /\ probe = NoProbe
    /\ history = [ticks |-> 0, draws |-> <<>>]
    /\ scene = NoScene

(* animate(): particleSystem.update().  The draws followed: at most one    *)
(* particle of a tick draws other than the quiet draws, and of a burst     *)
(* system that is the particle whose turn it is                            *)
MotionAnimate ==
    /\ history.ticks < MaxMotionTicks
    /\ LET ps == particleSystem.particles
       IN  \E draws \in {d \in [1..Len(ps) ->
                                   UNION {MotionTickDraws(particleSystem.type,
                                                          ps[i]) :
                                             i \in 1..Len(ps)}] :
                            /\ \A i \in 1..Len(ps) :
                                  d[i] \in MotionTickDraws(particleSystem.type,
                                                           ps[i])
                            /\ Cardinality(
                                  {i \in 1..Len(ps) :
                                      d[i] # MotionQuietDraws(
                                                particleSystem.type, ps[i])})
                                  <= 1
                            /\ particleSystem.type = "weldingSpark" =>
                                  \A i \in 1..Len(ps) \
                                           {EmitterOf(history.ticks, Len(ps))} :
                                     d[i] = QuietSparkTick(ps[i])} :
              /\ particleSystem' =
                    [particleSystem EXCEPT !.particles =
                        updateInOrder(particleSystem.type, ps,
                                      forEachOrder(Len(ps)), draws)]
              /\ history' = [ticks |-> history.ticks + 1, draws |-> draws]
    /\ UNCHANGED <<params, curvePath, scene, probe>>

(* the Speed Factor slider of the folder of the current type is moved; it  *)
(* has no onChange                                                         *)
MotionSetSpeedFactor ==
    /\ \E f \in SpeedFactors :
          /\ params' =
                IF particleSystem.type = "glow"
                  THEN [params EXCEPT !.glow.speedFactor = f]
                ELSE IF particleSystem.type = "weldingSpark"
                  THEN [params EXCEPT !.weldingSpark.speedFactor = f]
                ELSE [params EXCEPT !.comet.speedFactor = f]
          /\ params' # params
    /\ UNCHANGED <<curvePath, particleSystem, scene, probe, history>>

NextMotion ==
    \/ MotionAnimate
    \/ MotionSetSpeedFactor

SpecMotion == InitMotion /\ [][NextMotion]_vars

(* the multiplier and the offset of every particle stay what they were *)
MultiplierAndOffsetKept ==
    /\ Len(particleSystem'.particles) = Len(particleSystem.particles)
    /\ \A i \in 1..Len(particleSystem.particles) :
          /\ particleSystem'.particles[i].baseSpeedRandomness
                = particleSystem.particles[i].baseSpeedRandomness
          /\ particleSystem'.particles[i].lifecycleOffset
                = particleSystem.particles[i].lifecycleOffset

(* the lifecycleOffset of every particle is in [0, lifecycle.randomOffset] *)
OffsetWithinRandomOffset ==
    \A i \in 1..Len(particleSystem.particles) :
       /\ particleSystem.particles[i].lifecycleOffset >= 0
       /\ particleSystem.particles[i].lifecycleOffset
             <= params.lifecycle.randomOffset

(* C21 as stated: every particle of every variant has a multiplier within  *)
(* [0.5, 1.5] and a lifecycleOffset within [0, lifecycle.randomOffset],    *)
(* both fixed at creation                                                  *)
C21_MultiplierWithinOneAndAHalf ==
    /\ [](/\ OffsetWithinRandomOffset
          /\ \A i \in 1..Len(particleSystem.particles) :
                /\ 2 * particleSystem.particles[i].baseSpeedRandomness >= MultDen
                /\ 2 * particleSystem.particles[i].baseSpeedRandomness
                      <= 3 * MultDen)
    /\ [][MultiplierAndOffsetKept]_vars

(* C21 as amended: the multiplier is within [0.5, 1.5] for trail particles *)
(* and comets and within [0.5, 2.0] for burst particles; it and the        *)
(* lifecycleOffset, within [0, lifecycle.randomOffset], never change       *)
C21_MultiplierWithinVariantRange ==
    /\ [](/\ OffsetWithinRandomOffset
          /\ \A i \in 1..Len(particleSystem.particles) :
                /\ 2 * particleSystem.particles[i].baseSpeedRandomness >= MultDen
                /\ 2 * particleSystem.particles[i].baseSpeedRandomness
                      <= IF particleSystem.type = "weldingSpark"
                           THEN 4 * MultDen ELSE 3 * MultDen)
    /\ [][MultiplierAndOffsetKept]_vars

C21_Witness ==
    /\ history.ticks = MaxMotionTicks
    /\ particleSystem.type = "weldingSpark"
    /\ params.weldingSpark.speedFactor = 35
    /\ 2 * particleSystem.particles[1].baseSpeedRandomness > 3 * MultDen
    /\ 2 * particleSystem.particles[2].baseSpeedRandomness = MultDen
    /\ particleSystem.particles[1].lifecycleOffset > 0
    /\ particleSystem.particles[2].lifecycleOffset = 0
    /\ particleSystem.particles[1].currentT < Centi(98)

(* the orders in which n particles can be visited *)
Orders(n) ==
    {o \in [1..n -> 1..n] : \A a, b \in 1..n : o[a] = o[b] => a = b}

(* C22: in one update() tick, updating a particle changes that particle    *)
(* only and leaves the configuration and the path as they were, so the     *)
(* particles after the tick are the same for every order of visiting them, *)
(* given the same draws per particle                                       *)
C22_TickIsOrderIndependent ==
    [][history'.ticks = history.ticks + 1 =>
          LET ps == particleSystem.particles
              type == particleSystem.type
          IN  /\ params' = params
              /\ curvePath' = curvePath
              /\ \A i \in 1..Len(ps) :
                    LET after == updateParticleAt(type, ps, i, history'.draws)
                    IN  /\ Len(after) = Len(ps)
                        /\ \A j \in 1..Len(ps) : j # i => after[j] = ps[j]
              /\ \A o \in Orders(Len(ps)) :
                    updateInOrder(type, ps, o, history'.draws)
                       = particleSystem'.particles]_vars

C22_Witness ==
    /\ history.ticks >= 2
    /\ Len(particleSystem.particles) >= 2
    /\ particleSystem.type = "weldingSpark"
    /\ history.draws[1] # history.draws[2]
    /\ particleSystem.particles[1].currentT = 0
    /\ particleSystem.particles[2].currentT > 0
    /\ particleSystem.particles[1].activeParticles
          # particleSystem.particles[2].activeParticles


-----------------------------------------------------------------------------
(* C23: with the lifecycle enabled, at the last lifecycle position before  *)
(* the end of the cycle (p = 1 - 1/TDen) the alpha returned by             *)
(* calculateLifecycleAlpha is what is left of a fade-out that ends at      *)
(* p = 1, that is at most (1 - p) / fadeOut: the alpha approaches 0 as p   *)
(* approaches 1, for every allowed fadeIn, stable and fadeOut setting.     *)
C23_FadeOutCompleteAtCycleEnd ==
    (/\ probe.called
     /\ params.lifecycle.enabled
     /\ lifecyclePos(probe.particle) = TDen - 1)
       => RLeq(probe.alpha, Rat(1, params.lifecycle.fadeOutTime))


-----------------------------------------------------------------------------
(* C24: a colour set in palette mode (dark theme) while none of the five   *)
(* palette colours is enabled is one fixed colour, for trail particles and *)
(* for comets: every recoloured particle gets a single colour, and it is   *)
(* the colour the strategy gives under every other value of the Single     *)
(* Color and Comet Color settings.                                         *)
C24_EmptyPaletteGivesOneFixedColor ==
    [][/\ history'.op \in {"applyThemeSettings", "updateColors"}
       /\ params'.currentTheme = "dark"
       /\ particleSystem'.type \in {"glow", "comet"}
       /\ ModeOf(params', particleSystem'.type) = "palette"
       /\ activePalette(params') = <<>>
       => \A i \in history'.recolored :
             LET set == AssignedColors(particleSystem'.particles[i])
             IN  /\ Cardinality(set) = 1
                 /\ \A single \in SingleColors, comet \in CometColors :
                       StrategyColors(
                          [params' EXCEPT !.singleColorValue = single,
                                          !.comet.cometColor = comet],
                          particleSystem') = set]_vars

(* what holds for trail particles: the colour is white *)
EmptyPaletteGivesWhiteTrail ==
    [][/\ history'.op \in {"applyThemeSettings", "updateColors"}
       /\ params'.currentTheme = "dark"
       /\ particleSystem'.type = "glow"
       /\ params'.colorMode = "palette"
       /\ activePalette(params') = <<>>
       => \A i \in history'.recolored :
             AssignedColors(particleSystem'.particles[i]) = {White}]_vars


-----------------------------------------------------------------------------
(* SpecCurve: recreateSystem() under every value of params.curveType, the  *)
(* three the Curve Type control offers and two it does not.                *)

CurveTypeArguments == {"viviani", "lorenz", "juggling", "torus", ""}

(* params.curveType is assigned and recreateSystem() runs, as in the       *)
(* onChange of the Curve Type control                                      *)
CurveSetCurveType ==
    /\ scene.batches < MaxBatches
    /\ \E curveType \in CurveTypeArguments \ {params.curveType} :
          LET prm == [params EXCEPT !.curveType = curveType]
          IN  \E draws \in SceneDraws(prm) :
                 LET w == recreateSystem(prm, World, draws)
                 IN  /\ params' = prm
                     /\ curvePath' = PathFor(prm.curveType)
                     /\ particleSystem' = w.system
                     /\ scene' = w.scene
    /\ UNCHANGED <<probe, history>>

NextCurve ==
    \/ CurveSetCurveType
    \/ SceneSetParticleType
    \/ SceneSetNumParticles
    \/ SceneCallInit
    \/ SceneAnimate

SpecCurve == InitScene /\ [][NextCurve]_vars

(* C25: the path recreateSystem() builds is open exactly when the curve    *)
(* type is 'lorenz' and closed for 'viviani' and 'juggling'; any other     *)
(* curve type gives the closed Viviani path and a system with all its      *)
(* particles; every particle created afterwards, by recreateSystem() or    *)
(* by a later init(), holds that path, and keeps it through the ticks.     *)
C25_PathOpenIffLorenz ==
    /\ curvePath.closed = (params.curveType # "lorenz")
    /\ params.curveType \in {"viviani", "lorenz", "juggling"}
          => curvePath.family = params.curveType
    /\ params.curveType \notin {"lorenz", "juggling"}
          => curvePath = [closed |-> TRUE, family |-> "viviani"]
    /\ particleSystem.type = params.particleType
    /\ Len(particleSystem.particles) = params.numParticles
    /\ \A i \in 1..Len(particleSystem.particles) :
          particleSystem.particles[i].path = curvePath

(* after an unknown curve type, a comet made by a later init() and moved   *)
(* by a tick holds the closed Viviani path                                 *)
C25_Witness ==
    /\ params.curveType = "torus"
    /\ particleSystem.type = "comet"
    /\ history.inits >= 1
    /\ history.ticks >= 1
    /\ Len(particleSystem.particles) = 1
    /\ particleSystem.particles[1].currentT > 0
    /\ particleSystem.particles[1].path
          = [closed |-> TRUE, family |-> "viviani"]


-----------------------------------------------------------------------------
(* the slots of the pool q, in order, whose spark is still alive after the *)
(* life decrements decs of the tick                                        *)
SurvivingSlots(q, decs) ==
    SelectSeq([k \in 1..q.activeParticles |-> k],
              LAMBDA k : DoublePositive(LifeAfter(q, k, decs[k])))

(* C26: in a tick of a burst particle in which exactly one spark dies, in  *)
(* a slot before the last live slot, the freed slot holds after the tick   *)
(* the spark that was in the last live slot, so the order of the           *)
(* survivors is not kept.                                                  *)
C26_FreedSlotTakesLastSpark ==
    [][SparkTicked =>
        \A n \in 1..Len(particleSystem.particles) :
           LET p0 == particleSystem.particles[n]
               p  == particleSystem.particles'[n]
           IN  \A d \in SparkTickDraws(p0, TRUE) :
                  p = WeldingSparkParticleSystem_updateOne(p0, d) =>
                     LET q    == WeldingSpark_advance(p0, d)
                         last == q.activeParticles
                         dead == {k \in 1..last :
                                     ~DoublePositive(
                                         LifeAfter(q, k, d.decs[k]))}
                     IN  \A k \in dead :
                            (dead = {k} /\ k < last) =>
                               p.velocities[k].id = q.velocities[last].id]_vars

(* what holds: in every tick of a burst particle the surviving sparks are  *)
(* moved down to the lowest free slots in the order they had before: slot  *)
(* j holds after the tick the j-th surviving spark, with its own position, *)
(* velocity, size and life                                                 *)
SurvivorsKeepTheirOrder ==
    [][SparkTicked =>
        \A n \in 1..Len(particleSystem.particles) :
           LET p0 == particleSystem.particles[n]
               p  == particleSystem.particles'[n]
           IN  \A d \in SparkTickDraws(p0, TRUE) :
                  p = WeldingSparkParticleSystem_updateOne(p0, d) =>
                     LET q     == WeldingSpark_advance(p0, d)
                         alive == SurvivingSlots(q, d.decs)
                     IN  /\ p.activeParticles = Len(alive)
                         /\ \A j \in 1..Len(alive) :
                               SparkAt(p, j) =
                                  SparkAfterTick(q, alive[j],
                                                 d.decs[alive[j]])]_vars

(* a tick has removed a spark from in front of two survivors: both were    *)
(* emitted after the constructor's burst, the older is in slot 1 and the   *)
(* younger has been moved from slot 3, which still shows it, to slot 2     *)
OrderKeptAcrossARemoval ==
    /\ particleSystem.type = "weldingSpark"
    /\ history.ticks > 0
    /\ \E p \in SparkParticles :
          /\ p.activeParticles = 2
          /\ Len(p.velocities) >= 3
          /\ p.velocities[1].id >= 2
          /\ p.velocities[1].id < p.velocities[2].id
          /\ p.sparkLives[1] < p.sparkLives[2]
          /\ p.velocities[3].id = p.velocities[2].id
          /\ p.positions[3] = p.positions[2]


-----------------------------------------------------------------------------
(* C27: for a trail particle on an open path with the lifecycle enabled,   *)
(* the multiplier written by a tick is, for the currentT the tick has      *)
(* reached, calculateLifecycleAlpha * (1 - (currentT - (1 - fadeOut)) /    *)
(* fadeOut) when currentT > 1 - fadeOut, calculateLifecycleAlpha *         *)
(* (currentT / fadeIn) when the reset flag is set (by this tick's wrap or  *)
(* from before) and currentT < fadeIn, and calculateLifecycleAlpha alone   *)
(* otherwise; it is in [0,1], and it is 0 on the tick of a wrap.           *)
C27_OpenPathMultiplier ==
    [][GlowAnimate =>
         \A i \in 1..Len(particleSystem.particles) :
            LET p == particleSystem.particles[i]
                q == particleSystem'.particles[i]
                fi == params.lifecycle.fadeInTime
                fo == params.lifecycle.fadeOutTime
                t  == q.currentT
                a  == calculateLifecycleAlpha(q)
                wraps == reachesOne(p, params.glow.speedFactor)
                flag  == wraps \/ p.justReset
                expected ==
                   IF t > TDen - fo
                     THEN RMul(a, Rat(fo - (t - (TDen - fo)), fo))
                   ELSE IF flag /\ t < fi THEN RMul(a, Rat(t, fi))
                   ELSE a
            IN  (~p.path.closed /\ params.lifecycle.enabled)
                => /\ q.uLifecycleAlpha = expected
                   /\ RLeq(Zero, q.uLifecycleAlpha)
                   /\ RLeq(q.uLifecycleAlpha, One)
                   /\ wraps => q.uLifecycleAlpha = Zero]_vars

(* a particle on the open path just after its wrap: the lifecycle alpha    *)
(* of its position is not 0 and the multiplier written is 0                *)
C27_Witness ==
    /\ particleSystem.type = "glow"
    /\ params.lifecycle.enabled
    /\ \E p \in GlowParticles :
          /\ ~p.path.closed
          /\ p.currentT = 0
          /\ p.justReset
          /\ calculateLifecycleAlpha(p) # Zero
          /\ p.uLifecycleAlpha = Zero


-----------------------------------------------------------------------------
(* the tail strands of the comet p: the primary tail and the wide strands *)
TailStrands(p) ==
    {p.tailPositions}
       \cup {p.wideTailMeshes[s].positions : s \in 1..Len(p.wideTailMeshes)}

(* C28: on an open path no tail strand of a comet holds samples from both  *)
(* sides of the seam: the samples go backwards along the path from the     *)
(* head, so none of them lies at a path parameter beyond the head's.       *)
C28_TailNeverSpansTheSeam ==
    particleSystem.type = "comet" =>
       \A p \in Comets :
          ~p.path.closed =>
             \A strand \in TailStrands(p) :
                \A k \in 1..Len(strand) : strand[k].t <= strand[1].t


-----------------------------------------------------------------------------
(* C29: in a tick of a trail particle that does not wrap, currentT has     *)
(* advanced by the speed, the scatterOffset is kept, the trail keeps its   *)
(* length, sample i (1 <= i < trailLength, counted from 0) is the sample   *)
(* i - 1 of before the tick, so that the last sample of before is gone,    *)
(* and sample 0 is path(currentT) + scatterOffset for the new currentT.    *)
C29_NonWrapTickShiftsTrail ==
    [][GlowAnimate =>
         \A i \in 1..Len(particleSystem.particles) :
            LET p == particleSystem.particles[i]
                q == particleSystem'.particles[i]
                speed == params.glow.speedFactor * p.baseSpeedRandomness
            IN  p.currentT + speed < TDen
                => /\ q.currentT = p.currentT + speed
                   /\ q.scatterOffset = p.scatterOffset
                   /\ Len(q.trailPositions) = p.trailLength
                   /\ \A k \in 2..p.trailLength :
                         q.trailPositions[k] = p.trailPositions[k - 1]
                   /\ q.trailPositions[1] = [t |-> q.currentT,
                                             off |-> q.scatterOffset]]_vars

(* a trail of three samples after two ticks without a wrap: the samples    *)
(* are the positions of the head now, one tick ago and two ticks ago, and  *)
(* the two samples the constructor had placed behind the head are gone     *)
C29_Witness ==
    /\ particleSystem.type = "glow"
    /\ \E p \in GlowParticles :
          /\ p.trailLength = 3
          /\ p.speed > segmentDeltaT
          /\ p.currentT >= 2 * p.speed
          /\ p.trailPositions[1].t = p.currentT
          /\ p.trailPositions[2].t = p.currentT - p.speed
          /\ p.trailPositions[3].t = p.currentT - 2 * p.speed
          /\ p.trailPositions[3].off = p.scatterOffset


-----------------------------------------------------------------------------
(* the Speed Factor setting read by the particles of the given type *)
speedFactorOf(prm, type) ==
    IF type = "glow" THEN prm.glow.speedFactor
    ELSE IF type = "weldingSpark" THEN prm.weldingSpark.speedFactor
    ELSE prm.comet.speedFactor

(* C30: for every particle of every variant currentT is in [0,1) after     *)
(* construction and after every tick; a tick adds to it the speedFactor    *)
(* configured at that tick times the particle's personal multiplier, and   *)
(* sets it to exactly 0 when the sum reaches or passes 1.                  *)
C30_CurrentTStaysInUnitInterval ==
    /\ [](\A i \in 1..Len(particleSystem.particles) :
             /\ particleSystem.particles[i].currentT >= 0
             /\ ~DoubleAtLeastOne(particleSystem.particles[i].currentTBits))
    /\ [][history'.ticks = history.ticks + 1 =>
            \A i \in 1..Len(particleSystem.particles) :
               LET p == particleSystem.particles[i]
                   q == particleSystem'.particles[i]
                   step == speedFactorOf(params', particleSystem.type)
                              * p.baseSpeedRandomness
               IN  /\ step >= 0 /\ step < TDen
                   /\ q.currentT
                         = IF reachesOne(p, speedFactorOf(params',
                                                          particleSystem.type))
                             THEN 0 ELSE p.currentT + step]_vars

(* two ticks of a burst system: the particle with the multiplier 1.625 has *)
(* wrapped to 0; the one with the multiplier 0.5 has moved by 0.0035 +     *)
(* 0.0035 from 0.993 and holds the double 0.9999999999999999, which is     *)
(* below 1, so it has not wrapped                                          *)
C30_Witness ==
    /\ particleSystem.type = "weldingSpark"
    /\ history.ticks = 2
    /\ \E i, j \in 1..Len(particleSystem.particles) :
          /\ particleSystem.particles[i].currentT = 0
          /\ particleSystem.particles[i].currentTBits = DoubleZero
          /\ particleSystem.particles[j].baseSpeedRandomness = MultDen \div 2
          /\ particleSystem.particles[j].currentT = TDen
          /\ ~DoubleAtLeastOne(particleSystem.particles[j].currentTBits)


-----------------------------------------------------------------------------
(* SpecScatter: the three variants ticked by animate(), with the Scatter   *)
(* Radius slider moved between ticks; its onChange is recreateSystem().    *)

(* slider positions of Scatter Radius: 0, 1.1 (the default) and 5 *)
ScatterRadii == {0, 11, 50}

(* the onChange of the Scatter Radius control: recreateSystem() *)
ScatterSetRadius ==
    /\ scene.batches < MaxBatches
    /\ \E radius \in ScatterRadii \ {params.particleScatterRadius} :
          LET prm == [params EXCEPT !.particleScatterRadius = radius]
          IN  \E draws \in [1..prm.numParticles ->
                               [ctor : ColorConstructorDraws(prm.particleType),
                                color : {0}]] :
                 LET w == recreateSystem(prm, World, draws)
                 IN  /\ params' = prm
                     /\ curvePath' = PathFor(prm.curveType)
                     /\ particleSystem' = w.system
                     /\ scene' = w.scene
                     /\ history' = [history EXCEPT
                                       !.op = "recreateSystem",
                                       !.recolored = Recolored(w.system)]
    /\ UNCHANGED probe

NextScatter ==
    \/ ScatterSetRadius
    \/ ColorAnimate

SpecScatter == InitColor /\ [][NextScatter]_vars

(* every component of the offset is within the radius, both in their units *)
WithinRadius(offset, radius) ==
    \A c \in 1..3 :
       /\ offset[c] * RadiusDen <= radius * ScatterDen
       /\ offset[c] * RadiusDen >= -(radius * ScatterDen)

(* C31: a tick changes the scatterOffset of a particle only if the         *)
(* particle wraps in it, and every offset drawn, at creation or at a wrap, *)
(* has each component within [-radius, +radius] for the Scatter Radius     *)
(* configured when it is drawn.                                            *)
C31_ScatterChangesOnlyOnWrap ==
    [][/\ history'.op = "animate"
          => \A i \in 1..Len(particleSystem.particles) :
                LET p == particleSystem.particles[i]
                    q == particleSystem'.particles[i]
                    wraps == reachesOne(p, speedFactorOf(params,
                                                         particleSystem.type))
                IN  IF wraps
                      THEN WithinRadius(q.scatterOffset,
                                        params'.particleScatterRadius)
                      ELSE q.scatterOffset = p.scatterOffset
       /\ history'.op = "recreateSystem"
          => \A i \in 1..Len(particleSystem'.particles) :
                WithinRadius(particleSystem'.particles[i].scatterOffset,
                             params'.particleScatterRadius)]_vars

(* a comet created under the radius 5 has wrapped and then made a tick     *)
(* without a wrap: it carries the offset drawn at the wrap, one component  *)
(* of which is -5                                                          *)
C31_Witness ==
    /\ particleSystem.type = "comet"
    /\ params.particleScatterRadius = 50
    /\ history.op = "animate"
    /\ \E i \in 1..Len(particleSystem.particles) :
          LET p == particleSystem.particles[i]
          IN  /\ p.currentT > 0
              /\ p.currentT < Centi(50)
              /\ p.scatterOffset
                    = ScatterVector(<<3, 1, 0>>, 50)
              /\ p.scatterOffset[3] * RadiusDen = -(50 * ScatterDen)


-----------------------------------------------------------------------------
(* the comet q is the comet p with, at most, other values of the width     *)
(* uniforms and line width: the same motion state, samples and strands     *)
SameCometButWidth(p, q) ==
    /\ q.currentT = p.currentT
    /\ q.scatterOffset = p.scatterOffset
    /\ q.lifecycleOffset = p.lifecycleOffset
    /\ q.baseSpeedRandomness = p.baseSpeedRandomness
    /\ q.headPosition = p.headPosition
    /\ q.tailPositions = p.tailPositions
    /\ Len(q.wideTailMeshes) = Len(p.wideTailMeshes)
    /\ \A s \in 1..Len(p.wideTailMeshes) :
          q.wideTailMeshes[s].positions = p.wideTailMeshes[s].positions

(* the comet p is as its constructor leaves it: every tail sample of every *)
(* strand at the head's path parameter, floor(tailWidth * 2) wide strands  *)
FreshComet(p, tailWidth) ==
    /\ Len(p.wideTailMeshes) = numExtraLines(tailWidth)
    /\ \A strand \in TailStrands(p) :
          \A k \in 1..Len(strand) :
             strand[k].t = (TailDen \div TDen) * p.currentT

(* C32: when the Tail Width changes and updateCometParams() runs, the      *)
(* system is rebuilt exactly when floor(tailWidth * 2) differs by more     *)
(* than 2 from the wide-strand count of a comet; otherwise every comet is  *)
(* kept with the strands it has, whose count is then within 2 of           *)
(* floor(tailWidth * 2).                                                   *)
C32_RebuildOnlyBeyondThreshold ==
    [][/\ params'.comet.tailWidth # params.comet.tailWidth
       /\ params'.comet.tailLength = params.comet.tailLength
       => LET target == numExtraLines(params'.comet.tailWidth)
              far == \E i \in 1..Len(particleSystem.particles) :
                        Abs(target
                              - Len(particleSystem.particles[i].wideTailMeshes))
                           > 2
          IN  IF far
                THEN \A i \in 1..Len(particleSystem'.particles) :
                        FreshComet(particleSystem'.particles[i],
                                   params'.comet.tailWidth)
                ELSE /\ Len(particleSystem'.particles)
                           = Len(particleSystem.particles)
                     /\ \A i \in 1..Len(particleSystem.particles) :
                           /\ SameCometButWidth(particleSystem.particles[i],
                                                particleSystem'.particles[i])
                           /\ Abs(target
                                    - Len(particleSystem'.particles[i]
                                             .wideTailMeshes)) <= 2]_vars

(* a comet built with tailWidth 1.5 (three wide strands) and ticked keeps  *)
(* its three strands and its tail samples after the width is set to 2.5,   *)
(* where floor(tailWidth * 2) is 5                                         *)
C32_Witness ==
    /\ particleSystem.type = "comet"
    /\ params.comet.tailWidth = 25
    /\ \E p \in Comets :
          /\ p.tailWidth = 25
          /\ Len(p.wideTailMeshes) = 3
          /\ p.tailLength = 2
          /\ p.tailPositions[2].t # p.tailPositions[1].t
          /\ p.wideTailMeshes[3].positions[2].t = p.tailPositions[2].t


-----------------------------------------------------------------------------
(* C33: after updateColors() on the comet manager the head, the primary    *)
(* tail and every wide tail strand of each comet carry one colour, the one *)
(* just assigned to the head.                                              *)
C33_StrandsCarryTheNewColor ==
    [][/\ history'.op = "updateColors"
       /\ particleSystem'.type = "comet"
       => \A i \in 1..Len(particleSystem'.particles) :
             LET p == particleSystem'.particles[i]
             IN  /\ p.headMaterial.cometColor \in StrategyColors(params', particleSystem')
                 /\ p.tailMaterial.cometColor = p.headMaterial.cometColor
                 /\ \A s \in 1..Len(p.wideTailMeshes) :
                       p.wideTailMeshes[s].material.cometColor
                          = p.headMaterial.cometColor]_vars

(* what holds: the head and the primary tail carry the new colour *)
HeadAndTailCarryTheNewColor ==
    [][/\ history'.op = "updateColors"
       /\ particleSystem'.type = "comet"
       => \A i \in 1..Len(particleSystem'.particles) :
             LET p == particleSystem'.particles[i]
             IN  /\ p.headMaterial.cometColor \in StrategyColors(params', particleSystem')
                 /\ p.tailMaterial.cometColor = p.headMaterial.cometColor]_vars


-----------------------------------------------------------------------------
(* SpecBuffers: the three variants ticked by animate(), with the Trail     *)
(* Length / Tail Length control of the current type and the Tail Width,    *)
(* Boldness and Line Width controls moved between ticks, following the     *)
(* meshes the scene holds.                                                 *)

MaxBufferLength == 3

(* the onChange of Trail Length (trail and burst folders) and Tail Length  *)
(* (comet folder): recreateSystem()                                        *)
BuffersSetLength ==
    /\ scene.batches < MaxBatches
    /\ \E len \in 1..MaxBufferLength :
          LET prm == IF params.particleType = "glow"
                       THEN [params EXCEPT !.glow.trailLength = len]
                     ELSE IF params.particleType = "weldingSpark"
                       THEN [params EXCEPT !.weldingSpark.trailLength = len]
                     ELSE [params EXCEPT !.comet.tailLength = len]
          IN  /\ prm # params
              /\ \E draws \in [1..prm.numParticles ->
                                  [ctor : ColorConstructorDraws(prm.particleType),
                                   color : {0}]] :
                    LET w == recreateSystem(prm, World, draws)
                    IN  /\ params' = prm
                        /\ curvePath' = PathFor(prm.curveType)
                        /\ particleSystem' = w.system
                        /\ scene' = w.scene
                        /\ history' = [history EXCEPT
                                          !.op = "recreateSystem",
                                          !.recolored = Recolored(w.system)]
    /\ UNCHANGED probe

(* the onChange of the Tail Width control: updateCometParams() *)
BuffersSetTailWidth ==
    /\ scene.batches < MaxBatches
    /\ particleSystem.type = "comet"
    /\ \E width \in {8, 15, 25} \ {params.comet.tailWidth} :
          LET prm == [params EXCEPT !.comet.tailWidth = width]
          IN  \E draws \in [1..prm.numParticles ->
                               [ctor : ColorConstructorDraws(prm.particleType),
                                color : {0}]] :
                 LET w == updateCometParams(prm, World, draws)
                 IN  /\ params' = prm
                     /\ curvePath' = PathFor(prm.curveType)
                     /\ particleSystem' = w.system
                     /\ scene' = w.scene
                     /\ history' = [history EXCEPT
                                       !.op = "updateCometParams",
                                       !.recolored =
                                          IF w.scene.batches > scene.batches
                                            THEN Recolored(w.system)
                                            ELSE {}]
    /\ UNCHANGED probe

(* values tried on the Boldness and Line Width sliders, in tenths *)
Boldnesses == {10, 20}

LineWidths == {20, 35}

(* the onChange of Boldness in the glow folder: updateBoldness() on a      *)
(* trail system, nothing on a system of another type                       *)
BuffersSetBoldness ==
    /\ \E boldness \in Boldnesses \ {params.glow.boldness} :
          params' = [params EXCEPT !.glow.boldness = boldness]
    /\ IF particleSystem.type = "glow"
         THEN /\ particleSystem' = updateBoldness(params', particleSystem)
              /\ history' = [history EXCEPT !.op = "updateBoldness",
                                            !.recolored = {}]
         ELSE /\ particleSystem' = particleSystem
              /\ history' = [history EXCEPT !.op = "none", !.recolored = {}]
    /\ UNCHANGED <<curvePath, scene, probe>>

(* the onChange of Line Width in the glow folder: updateLineWidth() on a   *)
(* trail system, nothing on a system of another type                       *)
BuffersSetLineWidth ==
    /\ \E lineWidth \in LineWidths \ {params.glow.lineWidth} :
          params' = [params EXCEPT !.glow.lineWidth = lineWidth]
    /\ IF particleSystem.type = "glow"
         THEN /\ particleSystem' = updateLineWidth(params', particleSystem)
              /\ history' = [history EXCEPT !.op = "updateLineWidth",
                                            !.recolored = {}]
         ELSE /\ particleSystem' = particleSystem
              /\ history' = [history EXCEPT !.op = "none", !.recolored = {}]
    /\ UNCHANGED <<curvePath, scene, probe>>

(* the draws of one tick of one particle: a burst particle emits or not *)
BuffersTickDraws(p) ==
    IF p.kind = "weldingSpark" THEN MotionTickDraws("weldingSpark", p)
    ELSE {<<3, 1, 0>>}

(* animate(): particleSystem.update() *)
BuffersAnimate ==
    /\ history.ticks < MaxColorTicks
    /\ LET ps == particleSystem.particles
       IN  \E draws \in {d \in [1..Len(ps) ->
                                   UNION {BuffersTickDraws(ps[i]) :
                                             i \in 1..Len(ps)}] :
                            \A i \in 1..Len(ps) :
                               d[i] \in BuffersTickDraws(ps[i])} :
              particleSystem' =
                 [particleSystem EXCEPT !.particles =
                     IF particleSystem.type = "glow"
                       THEN GlowParticleSystem_update(ps, draws)
                     ELSE IF particleSystem.type = "weldingSpark"
                       THEN WeldingSparkParticleSystem_update(ps, draws)
                     ELSE CometParticleSystem_update(ps, draws)]
    /\ history' = [history EXCEPT !.ticks = @ + 1, !.op = "animate",
                                  !.recolored = {}]
    /\ UNCHANGED <<params, curvePath, scene, probe>>

NextBuffers ==
    \/ BuffersSetLength
    \/ BuffersSetTailWidth
    \/ BuffersSetBoldness
    \/ BuffersSetLineWidth
    \/ BuffersAnimate

SpecBuffers == InitColor /\ [][NextBuffers]_vars

(* the buffers of the particle p: which meshes hold them and how long they *)
(* are, for a burst particle the three arrays of the geometry and the list *)
(* of the velocities of the pool; for a comet also the fade weights of the *)
(* tail                                                                    *)
BufferShape(p) ==
    IF p.kind = "glow"
      THEN [meshes |-> MeshesOf(p),
            lengths |-> <<Len(p.trailPositions), Len(p.trailAlphas)>>,
            fades |-> <<>>]
    ELSE IF p.kind = "weldingSpark"
      THEN [meshes |-> MeshesOf(p),
            lengths |-> <<Len(p.positions), Len(p.sizes), Len(p.sparkLives),
                          Len(p.velocities)>>,
            fades |-> <<>>]
    ELSE [meshes |-> MeshesOf(p),
          lengths |-> <<Len(p.tailPositions)>>
                         \o [s \in 1..Len(p.wideTailMeshes) |->
                                Len(p.wideTailMeshes[s].positions)],
          fades |-> p.tailFades]

(* C34: a tick leaves every particle with the buffers it had, of the same  *)
(* lengths, and a comet with the tail fade weights it had; whenever a      *)
(* buffer of the system differs after a step, the step has created a new   *)
(* system and the meshes of the old particles are out of the scene.        *)
C34_TicksKeepTheBuffers ==
    [][/\ history'.ticks = history.ticks + 1
          => /\ Len(particleSystem'.particles) = Len(particleSystem.particles)
             /\ \A i \in 1..Len(particleSystem.particles) :
                   BufferShape(particleSystem'.particles[i])
                      = BufferShape(particleSystem.particles[i])
       /\ \/ /\ Len(particleSystem'.particles) = Len(particleSystem.particles)
             /\ \A i \in 1..Len(particleSystem.particles) :
                   BufferShape(particleSystem'.particles[i])
                      = BufferShape(particleSystem.particles[i])
          \/ /\ scene'.batches = scene.batches + 1
             /\ \A i \in 1..Len(particleSystem.particles) :
                   MeshesOf(particleSystem.particles[i]) \cap scene'.objects = {}]_vars

(* BufferShape without the list of the velocities of a burst particle *)
GeometryShape(p) ==
    [BufferShape(p) EXCEPT
        !.lengths = IF p.kind = "weldingSpark" THEN SubSeq(@, 1, 3) ELSE @]

(* what holds: a tick leaves every particle with the arrays of its         *)
(* geometry, of the same lengths, and a comet with the tail fade weights   *)
(* it had; these differ after a step only when the step has created a new  *)
(* system and the meshes of the old particles are out of the scene         *)
TicksKeepTheGeometryBuffers ==
    [][/\ history'.ticks = history.ticks + 1
          => /\ Len(particleSystem'.particles) = Len(particleSystem.particles)
             /\ \A i \in 1..Len(particleSystem.particles) :
                   GeometryShape(particleSystem'.particles[i])
                      = GeometryShape(particleSystem.particles[i])
       /\ \/ /\ Len(particleSystem'.particles) = Len(particleSystem.particles)
             /\ \A i \in 1..Len(particleSystem.particles) :
                   GeometryShape(particleSystem'.particles[i])
                      = GeometryShape(particleSystem.particles[i])
          \/ /\ scene'.batches = scene.batches + 1
             /\ \A i \in 1..Len(particleSystem.particles) :
                   MeshesOf(particleSystem.particles[i]) \cap scene'.objects = {}]_vars

(* what holds: in a tick the list of the velocities of a burst particle    *)
(* does not shrink and is never longer than the pool                       *)
VelocityListGrowsWithinThePool ==
    [][(history'.ticks = history.ticks + 1
          /\ particleSystem.type = "weldingSpark")
       => \A i \in 1..Len(particleSystem.particles) :
             LET p == particleSystem.particles[i]
                 q == particleSystem'.particles[i]
             IN  /\ Len(p.velocities) <= Len(q.velocities)
                 /\ Len(q.velocities) <= Len(q.sparkLives)]_vars

(* a burst particle whose list of velocities a tick has made longer: the   *)
(* pool is full and its last spark is one tick old                         *)
VelocityListHasGrown ==
    /\ particleSystem.type = "weldingSpark"
    /\ history.op = "animate"
    /\ \E i \in 1..Len(particleSystem.particles) :
          LET p == particleSystem.particles[i]
          IN  /\ Len(p.velocities) = Len(p.sparkLives)
              /\ p.activeParticles = Len(p.sparkLives)
              /\ p.sizes[p.activeParticles].shrinks = 1

(* a comet rebuilt with a tail of three samples has made two ticks, the    *)
(* first a wrap: its fade weights are the constructor's 1, 1/2, 0          *)
FadesKeptAcrossTicks ==
    /\ particleSystem.type = "comet"
    /\ history.ticks = 2
    /\ history.op = "animate"
    /\ scene.batches >= 2
    /\ \E i \in 1..Len(particleSystem.particles) :
          LET p == particleSystem.particles[i]
          IN  /\ p.tailLength = 3
              /\ p.tailFades = << <<1, 1>>, <<1, 2>>, <<0, 1>> >>
              /\ p.currentT > 0
              /\ p.currentT < Centi(50)
              /\ p.tailPositions[3].t > p.tailPositions[1].t


-----------------------------------------------------------------------------
(* SpecLifecycle: the three variants ticked by animate(), with the Enable  *)
(* Lifecycle checkbox switched between ticks; it has no onChange.          *)

LifecycleSetEnabled ==
    /\ params' = [params EXCEPT !.lifecycle.enabled = ~@]
    /\ UNCHANGED <<curvePath, particleSystem, scene, probe, history>>

NextLifecycle ==
    \/ MotionAnimate
    \/ LifecycleSetEnabled

SpecLifecycle == InitMotion /\ [][NextLifecycle]_vars

(* the lifecycle alpha multipliers the materials of the particle p hold *)
LifecycleMultipliers(p) ==
    IF p.kind = "glow" THEN {p.uLifecycleAlpha}
    ELSE IF p.kind = "weldingSpark" THEN {p.lifecycleAlpha}
    ELSE {p.headLifecycleAlpha, p.tailLifecycleAlpha}
            \cup {p.wideTailMeshes[s].lifecycleAlpha :
                     s \in 1..Len(p.wideTailMeshes)}

(* C35: after a tick made while params.lifecycle.enabled is false, every   *)
(* lifecycle alpha multiplier of every particle is 1.                      *)
C35_DisabledLifecycleShowsFully ==
    [][/\ history'.ticks = history.ticks + 1
       /\ ~params.lifecycle.enabled
       => \A i \in 1..Len(particleSystem'.particles) :
             LifecycleMultipliers(particleSystem'.particles[i]) = {One}]_vars

(* what holds: a tick made while the lifecycle is disabled leaves every    *)
(* multiplier as it was                                                    *)
DisabledLifecycleKeepsMultipliers ==
    [][/\ history'.ticks = history.ticks + 1
       /\ ~params.lifecycle.enabled
       => \A i \in 1..Len(particleSystem'.particles) :
             LifecycleMultipliers(particleSystem'.particles[i])
                = LifecycleMultipliers(particleSystem.particles[i])]_vars


(***************************************************************************)
(* The lifetime of a spark: a burst particle followed through more ticks   *)
(* than the longest life, with the slowest decrement (a draw of 0, 0.03)   *)
(* and the fastest one (a draw of 0.95, 0.049) in every tick.  Seventeen   *)
(* of the slowest followed by ten of the fastest sum to exactly 1 and      *)
(* leave a float above 0 in sparkLives: that spark is kept one tick more.  *)
(***************************************************************************)

(* the ticks followed: two more than the 34 of the longest life *)
MaxDecayTicks == 36

(* the draws of the life decrements of a run: the slowest (a draw of 0) in *)
(* every tick, the fastest (a draw of 0.95) in every tick, the two in      *)
(* turn, or seventeen of the slowest and then ten of the fastest           *)
DecaySchedules == {"slowest", "fastest", "inTurn", "slowThenFast"}

DecayDecDraw(schedule, tick) ==
    CASE schedule = "slowest" -> 0
      [] schedule = "fastest" -> DecDen - 1
      [] schedule = "inTurn" -> IF tick % 2 = 0 THEN 0 ELSE DecDen - 1
      [] OTHER -> IF tick % 27 < 17 THEN 0 ELSE DecDen - 1

InitDecay ==
    /\ \E len \in 1..MaxSparkTrailLength :
          params = [TunedParams EXCEPT !.particleType = "weldingSpark",
                                         !.weldingSpark.trailLength = len]
    /\ curvePath = PathFor(params.curveType)
    /\ \E draws \in [1..params.numParticles -> SparkConstructorDraws] :
          particleSystem =
             [type |-> "weldingSpark",
              particles |->
                 WeldingSparkParticleSystem_createParticles(curvePath, draws)]
    /\ probe = NoProbe
    /\ \E sch \in DecaySchedules :
          history = [ticks |-> 0, bursts |-> 0, quiet |-> 0, schedule |-> sch]
    /\ scene = NoScene

(* animate(): particleSystem.update() on the burst manager; quiet counts   *)
(* the ticks since the last one that emitted                               *)
DecayAnimate ==
    /\ particleSystem.type = "weldingSpark"
    /\ history.ticks < MaxDecayTicks
    /\ LET p == particleSystem.particles[1]
       IN  \E e \in EmitDraws(history.bursts < MaxBursts) :
             LET dd == [k \in 1..Len(p.positions) |->
                          DecayDecDraw(history.schedule, history.ticks)]
                 s == IF reachesOne(p, params.weldingSpark.speedFactor)
                        THEN CHOOSE x \in SparkScatterAtWrap : TRUE
                        ELSE <<0, 0, 0>>
                 d == [scatter |-> s, emit |-> e.emit, burst |-> e.burst,
                       decs |-> dd]
                 draws == [i \in 1..Len(particleSystem.particles) |-> d]
             IN  /\ particleSystem' =
                       [particleSystem EXCEPT !.particles =
                           WeldingSparkParticleSystem_update(
                              particleSystem.particles, draws)]
                 /\ history' = [history EXCEPT
                                !.ticks = @ + 1,
                                !.bursts = @ + BurstsIn(draws),
                                !.quiet = IF BurstsIn(draws) = 1 THEN 0
                                          ELSE @ + 1]
    /\ UNCHANGED <<params, curvePath, scene, probe>>

NextDecay == DecayAnimate

SpecDecay == InitDecay /\ [][NextDecay]_vars

(* the ticks a live spark has been through: update() shrinks the size of   *)
(* a spark once in every tick it survives                                  *)
SparkAge(p, k) == p.sizes[k].shrinks

(* C36: every spark is removed within 34 ticks of its emission: a live     *)
(* spark has been through at most 33 ticks and has lost at least 0.03 of   *)
(* life in each of them, the tick of its emission included; hence after    *)
(* 34 ticks without an emission no spark of the burst particle is live.    *)
C36_SparksLiveUnder34Ticks ==
    /\ \A i \in 1..Len(particleSystem.particles) :
          LET p == particleSystem.particles[i]
          IN  \A k \in 1..p.activeParticles :
                 /\ SparkAge(p, k) <= 33
                 /\ 100 * p.sparkLives[k]
                       <= 100 * LifeDen - 3 * LifeDen * SparkAge(p, k)
    /\ history.quiet >= 34 =>
          \A i \in 1..Len(particleSystem.particles) :
             particleSystem.particles[i].activeParticles = 0

(* a spark of the constructor's burst, live after 33 ticks of the slowest  *)
(* decrement                                                               *)
C36_Witness ==
    /\ history.ticks = 33
    /\ history.quiet = 33
    /\ \E k \in 1..particleSystem.particles[1].activeParticles :
          SparkAge(particleSystem.particles[1], k) = 33


-----------------------------------------------------------------------------
(* SpecWrap: a system of two particles ticked for ever.  animate() begins  *)
(* with requestAnimationFrame(animate), so a tick is always followed by    *)
(* another one: the tick is weakly fair.  The Speed Factor is one of the   *)
(* slider's positions and keeps it.                                        *)

(* constructor draws of the particles of one system: the two starting     *)
(* positions, and one speed multiplier for the whole system                *)
WrapConstructorDraws(type) ==
    {[c EXCEPT !.mult = m] :
        m \in {1, RandDen - 1},
        c \in IF type = "weldingSpark"
                THEN [t : {Centi(49), Centi(97)}, mult : {0}, offset : {0},
                      scatter : SparkScatterAtStart, burst : {NoBurst}]
                ELSE [t : {Centi(49), Centi(97)}, mult : {0}, offset : {0},
                      scatter : {<<0, 2, 3>>}]}

InitWrap ==
    /\ \E type \in ParticleTypes, ct \in {"lorenz", "viviani"},
          lc \in {l \in GlowLifecycles :
                    l.enabled /\ l.fadeInTime \in {Centi(9), Centi(50)}},
          f \in SpeedFactors :
          params = [TunedParams EXCEPT !.particleType = type,
                                         !.curveType = ct,
                                         !.numParticles = 2,
                                         !.lifecycle = lc,
                                         !.glow.speedFactor = f,
                                         !.weldingSpark.speedFactor = f,
                                         !.comet.speedFactor = f]
    /\ curvePath = PathFor(params.curveType)
    /\ \E draws \in [1..params.numParticles ->
                        WrapConstructorDraws(params.particleType)] :
          /\ draws[1].mult = draws[2].mult
          /\ particleSystem =
                [type |-> params.particleType,
                 particles |->
                    IF params.particleType = "glow"
                      THEN GlowParticleSystem_createParticles(curvePath, draws)
                    ELSE IF params.particleType = "weldingSpark"
                      THEN WeldingSparkParticleSystem_createParticles(curvePath,
                                                                      draws)
                    ELSE CometParticleSystem_createParticles(params, curvePath,
                                                             draws)]
    /\ probe = NoProbe
    /\ history = NoHistory
    /\ scene = NoScene

(* requestAnimationFrame(animate), the first statement of animate(): the   *)
(* frame that follows is requested before the work of this one; ticks      *)
(* holds the parity of the frames animated                                 *)
WrapFrame == history' = [history EXCEPT !.ticks = (@ + 1) % 2]

(* animate(): particleSystem.update(), in a tick that emits no sparks *)
WrapAnimate ==
    /\ WrapFrame
    /\ LET ps == particleSystem.particles
           draws == [i \in 1..Len(ps) |->
                        MotionQuietDraws(particleSystem.type, ps[i])]
       IN  particleSystem' =
              [particleSystem EXCEPT !.particles =
                  updateInOrder(particleSystem.type, ps,
                                forEachOrder(Len(ps)), draws)]
    /\ UNCHANGED <<params, curvePath, scene, probe>>

NextWrap == WrapAnimate

(* every step of NextWrap is a frame, and a requested frame is always      *)
(* enabled: the fairness of the frames is the fairness of WrapAnimate      *)
SpecWrap == InitWrap /\ [][NextWrap]_vars /\ WF_history(WrapFrame)

(* the reset flag of the particle at index i; only a trail particle has one *)
ResetFlagSet(i) ==
    /\ particleSystem.type = "glow"
    /\ ~curvePath.closed
    /\ params.lifecycle.enabled
    /\ particleSystem.particles[i].justReset

(* C37: with a speed factor > 0 and ticks that keep arriving, every        *)
(* particle of every variant wraps (currentT is reset to 0) infinitely     *)
(* often, and on an open path with the lifecycle enabled every setting of  *)
(* the reset flag is eventually followed by its clearing.                  *)
C37_WrapsAndClearsForEver ==
    /\ \A i \in 1..2 : []<>(particleSystem.particles[i].currentT = 0)
    /\ \A i \in 1..2 : ResetFlagSet(i) ~> ~ResetFlagSet(i)

(* what holds: every particle of every variant wraps infinitely often *)
EveryParticleWrapsForEver ==
    \A i \in 1..2 : []<>(particleSystem.particles[i].currentT = 0)

(* what holds: the flag is cleared when the fade-in ends before the        *)
(* fade-out of the seam begins                                             *)
ResetFlagClearedBetweenTheFades ==
    \A i \in 1..2 :
       (ResetFlagSet(i)
          /\ params.lifecycle.fadeInTime + params.lifecycle.fadeOutTime < TDen)
       ~> ~ResetFlagSet(i)


-----------------------------------------------------------------------------
(* SpecLoop: the forEach of updateCometParams() followed callback by       *)
(* callback, on systems of one or more comets.                             *)

RECURSIVE updateCometParams_forEach(_, _, _, _, _)
(* this.particles.forEach(p => {...}) of updateCometParams(), from index k *)
(* on: forEach reads the length len once and skips an index the array no   *)
(* longer has.  st.old is the array walked; st.live tells whether its      *)
(* manager is still the current particleSystem of st.w; st.callbacks       *)
(* counts the callbacks run, st.late those run after a rebuild and         *)
(* st.stale those run on a comet whose meshes dispose() has removed        *)
updateCometParams_forEach(prm, st, k, len, draws) ==
    IF k > len THEN st
    ELSE IF k > Len(st.old)
      THEN updateCometParams_forEach(prm, st, k + 1, len, draws)
    ELSE
      LET p  == st.old[k]
          s1 == [st EXCEPT
                    !.callbacks = @ + 1,
                    !.late = @ + (IF st.live THEN 0 ELSE 1),
                    !.stale = @ + (IF MeshesOf(p) \cap st.w.scene.objects = {}
                                     THEN 1 ELSE 0)]
      IN  IF NeedsRebuild(numExtraLines(prm.comet.tailWidth),
                          Len(p.wideTailMeshes))
            THEN updateCometParams_forEach(
                    prm,
                    [s1 EXCEPT
                        !.w = recreateSystem(prm, st.w, draws),
                        !.old = IF st.live
                                  THEN ParticleSystem_clear(st.w).system.particles
                                  ELSE @,
                        !.live = FALSE],
                    k + 1, len, draws)
            ELSE updateCometParams_forEach(
                    prm,
                    [s1 EXCEPT
                        !.old[k] = updateCometParams_keep(prm, p),
                        !.w = IF st.live
                                THEN [@ EXCEPT !.system.particles[k] =
                                         updateCometParams_keep(prm, p)]
                                ELSE @],
                    k + 1, len, draws)

(* the onChange of the Tail Width slider: updateCometParams(); probe keeps *)
(* what the loop of the call did                                           *)
LoopSetTailWidth ==
    /\ scene.batches < MaxBatches
    /\ particleSystem.type = "comet"
    /\ \E width \in {8, 15, 25} \ {params.comet.tailWidth} :
          LET prm == [params EXCEPT !.comet.tailWidth = width]
              n   == Len(particleSystem.particles)
          IN  \E draws \in SceneDraws(prm) :
                 LET r == updateCometParams_forEach(
                             prm,
                             [w |-> World, old |-> particleSystem.particles,
                              live |-> TRUE, callbacks |-> 0, late |-> 0,
                              stale |-> 0],
                             1, n, draws)
                 IN  /\ params' = prm
                     /\ curvePath' = PathFor(prm.curveType)
                     /\ particleSystem' = r.w.system
                     /\ scene' = r.w.scene
                     /\ probe' = [type |-> "updateCometParams",
                                  called |-> TRUE,
                                  result |-> [comets |-> n,
                                              callbacks |-> r.callbacks,
                                              late |-> r.late,
                                              stale |-> r.stale,
                                              rebuilds |-> r.w.scene.batches
                                                             - scene.batches]]
    /\ UNCHANGED history

NextLoop ==
    \/ SceneSetParticleType
    \/ SceneSetNumParticles
    \/ LoopSetTailWidth
    \/ SceneAnimate

SpecLoop == InitScene /\ [][NextLoop]_vars

(* C38: one updateCometParams() call runs recreateSystem() at most once:   *)
(* after the rebuild has emptied the list the forEach walks, no further    *)
(* callback runs and no disposed comet is read or written; a call that     *)
(* does not rebuild runs one callback per comet.                           *)
C38_OneRebuildPerCall ==
    probe.type = "updateCometParams"
       => /\ probe.result.rebuilds <= 1
          /\ probe.result.late = 0
          /\ probe.result.stale = 0
          /\ probe.result.rebuilds = 0
                => probe.result.callbacks = probe.result.comets

(* a call on a system of two comets that rebuilt it, in its first callback *)
C38_Witness ==
    /\ probe.type = "updateCometParams"
    /\ probe.result.comets = 2
    /\ probe.result.rebuilds = 1
    /\ probe.result.callbacks = 1
    /\ Len(particleSystem.particles) = 2

=============================================================================
